---- MODULE Spec2Model ----
(***************************************************************************)
(* A model of the geometric kernel of cpp-geometric-primitives:            *)
(*   - DelaunayTriangulation  (include/triangulation.hpp)                  *)
(*   - GrahamScan             (src/convex_hull.cpp)                        *)
(*   - GetIntersectPoint      (include/intersections.hpp)                  *)
(*                                                                         *)
(* Numbers.  The code computes in double; the model computes in exact      *)
(* arithmetic on a lattice.  Every call has a unit: its coordinates and    *)
(* radii are integer multiples of 2^-unit, kept as the integers.  A value  *)
(* that is not an integer is kept as a numerator with its denominator, a   *)
(* square root as its radicand.  The tolerances of the code (1e-10 in the  *)
(* triangulation and in the hull's sort, 1e-9 in the intersections) are    *)
(* absolute, so what they decide depends on the unit: a comparison         *)
(* "abs(v) < eps" of a quantity v * 2^-e is decided exactly as             *)
(* abs(v) * (1 / eps) < 2^e in naturals of arbitrary size.  With steps of  *)
(* 1 every tolerance separates zero from nonzero; with steps near the      *)
(* tolerance it does not.  Each definition says which comparison of the    *)
(* code it stands for.                                                     *)
(***************************************************************************)
EXTENDS Integers, Sequences, FiniteSets, TLC

VARIABLES
    dtUnit,        \* DelaunayTriangulation: the coordinates are steps of 2^-dtUnit
    dtPoints,      \* the span the caller passes
    dtSuper,       \* <<super1, super2, super3>>, <<>> before it is built
    dtTriangles,   \* the working vector `triangles`
    dtBad,         \* `bad_triangles` of the last insertion
    dtPolygon,     \* `polygon` of the last insertion (a set of Edge)
    dtI,           \* number of input points already inserted
    dtPc,          \* "idle", "call", "insert", "done"
    dtOutcome      \* how the call ended: [kind, ...]

VARIABLES
    ghUnit,        \* GrahamScan: the coordinates are steps of 2^-ghUnit
    ghInput,       \* the caller's buffer as it was at the call
    ghPoints,      \* the caller's buffer (the span `points`), reordered in place
    ghHull,        \* the StackForGrahamScan `hull`, bottom first
    ghI,           \* number of points the scan loop has taken
    ghPc,          \* "idle", "call", "scan", "done"
    ghOutcome      \* how the call ended: [kind, ...]

VARIABLES
    ixUnit,        \* GetIntersectPoint: the coordinates and radii are steps of 2^-ixUnit
    ixFirst,       \* the argument shape1 of the current call
    ixSecond,      \* the argument shape2 of the current call
    ixPrev,        \* what the call with the arguments in the other order returned
    ixOutcome,     \* what the current call returned or threw
    ixPc           \* "idle", "call", "swap", "recall", "done"

VARIABLES
    quOp,          \* the query that was called: "none" before the call
    quShapes,      \* its shape arguments: one, two, or the span `shapes`
    quPoint,       \* its point argument
    quBoxes,       \* the two boxes of a call of BoundingBox::Overlaps
    quOutcome      \* what the call returned

dtVars == <<dtUnit, dtPoints, dtSuper, dtTriangles, dtBad, dtPolygon, dtI, dtPc, dtOutcome>>

ghVars == <<ghUnit, ghInput, ghPoints, ghHull, ghI, ghPc, ghOutcome>>

ixVars == <<ixUnit, ixFirst, ixSecond, ixPrev, ixOutcome, ixPc>>

quVars == <<quOp, quShapes, quPoint, quBoxes, quOutcome>>

vars == <<dtVars, ghVars, ixVars, quVars>>

\* ------------------------------------------------------------------ bounds
\* Input coordinates of the point algorithms are 0 .. MaxCoord.
MaxCoord == 2
\* Longest point sequence handed to DelaunayTriangulation.
MaxPoints == 4
\* Longest point sequence handed to GrahamScan.
MaxHullInput == 4
\* Radii of the circles are 1 .. MaxRadius.
MaxRadius == 3

\* ------------------------------------------------------- exact arithmetic
Abs(v) == IF v < 0 THEN -v ELSE v

Sign(v) == IF v > 0 THEN 1 ELSE IF v < 0 THEN -1 ELSE 0

Max2(a, b) == IF a > b THEN a ELSE b

Min2(a, b) == IF a < b THEN a ELSE b

SetMax(S) == CHOOSE m \in S : \A v \in S : v <= m

SetMin(S) == CHOOSE m \in S : \A v \in S : m <= v

\* The integers of the model checker are 32 bits wide; the products of the
\* circumcircle test and of the tolerance comparisons are wider.  Wide is the
\* radix in which such a number is split.
Wide == 2^15

\* Sign of a1*b1 + a2*b2, exactly: b = hi*Wide + lo with 0 <= lo < Wide.
SignOfDot(a1, b1, a2, b2) ==
    LET hi == a1 * (b1 \div Wide) + a2 * (b2 \div Wide)
        lo == a1 * (b1 % Wide) + a2 * (b2 % Wide)
        h  == hi + (lo \div Wide)
        l  == lo % Wide
    IN  IF h # 0 THEN Sign(h) ELSE Sign(l)

\* A natural number of any size: its digits in radix Wide, lowest first.
Limb(a, i) == IF i <= Len(a) THEN a[i] ELSE 0

RECURSIVE BigOf(_)
BigOf(n) == IF n = 0 THEN <<>> ELSE <<n % Wide>> \o BigOf(n \div Wide)

RECURSIVE BigAddFrom(_, _, _, _)
BigAddFrom(a, b, i, carry) ==
    IF i > Len(a) /\ i > Len(b)
    THEN IF carry = 0 THEN <<>> ELSE <<carry>>
    ELSE LET s == Limb(a, i) + Limb(b, i) + carry
         IN  <<s % Wide>> \o BigAddFrom(a, b, i + 1, s \div Wide)

BigAdd(a, b) == BigAddFrom(a, b, 1, 0)

\* a - b for a >= b
RECURSIVE BigSubFrom(_, _, _, _)
BigSubFrom(a, b, i, borrow) ==
    IF i > Len(a) THEN <<>>
    ELSE LET s == a[i] - Limb(b, i) - borrow
         IN  <<s % Wide>> \o BigSubFrom(a, b, i + 1, IF s < 0 THEN 1 ELSE 0)

BigSub(a, b) == BigSubFrom(a, b, 1, 0)

\* a * m for one digit m
RECURSIVE BigScaleFrom(_, _, _, _)
BigScaleFrom(a, m, i, carry) ==
    IF i > Len(a)
    THEN IF carry = 0 THEN <<>> ELSE <<carry>>
    ELSE LET s == a[i] * m + carry
         IN  <<s % Wide>> \o BigScaleFrom(a, m, i + 1, s \div Wide)

RECURSIVE BigMulFrom(_, _, _)
BigMulFrom(a, b, j) ==
    IF j > Len(b) THEN <<>>
    ELSE BigAdd(BigScaleFrom(a, b[j], 1, 0), <<0>> \o BigMulFrom(a, b, j + 1))

BigMul(a, b) == BigMulFrom(a, b, 1)

RECURSIVE BigCmpFrom(_, _, _)
BigCmpFrom(a, b, i) ==
    IF i = 0 THEN 0
    ELSE IF Limb(a, i) # Limb(b, i) THEN (IF Limb(a, i) < Limb(b, i) THEN -1 ELSE 1)
    ELSE BigCmpFrom(a, b, i - 1)

BigLess(a, b) == BigCmpFrom(a, b, Max2(Len(a), Len(b))) < 0

BigLeq(a, b) == BigCmpFrom(a, b, Max2(Len(a), Len(b))) <= 0

\* 2^e
RECURSIVE BigPow2(_)
BigPow2(e) == IF e < 15 THEN <<2^e>> ELSE <<0>> \o BigPow2(e - 15)

\* |a1*b1 + a2*b2| as [hi, lo], the number hi*Wide + lo with 0 <= lo < Wide
AbsDot(a1, b1, a2, b2) ==
    LET hi == a1 * (b1 \div Wide) + a2 * (b2 \div Wide)
        lo == a1 * (b1 % Wide) + a2 * (b2 % Wide)
        h  == hi + (lo \div Wide)
        l  == lo % Wide
    IN  IF h >= 0 THEN [hi |-> h, lo |-> l]
        ELSE IF l = 0 THEN [hi |-> -h, lo |-> 0]
        ELSE [hi |-> -h - 1, lo |-> Wide - l]

\* |a1*b1 + a2*b2| as a number of any size
BigAbsDot(a1, b1, a2, b2) ==
    LET v == AbsDot(a1, b1, a2, b2) IN <<v.lo>> \o BigOf(v.hi)

\* |a1*b1 + a2*b2| >= m, for m >= 0
AbsDotAtLeast(a1, b1, a2, b2, m) ==
    LET v == AbsDot(a1, b1, a2, b2)
    IN  v.hi > m \div Wide \/ (v.hi = m \div Wide /\ v.lo >= m % Wide)

\* Units.  A call works on a lattice: every coordinate it is given is an
\* integer number of steps of 2^-unit.  A length of v steps is v * 2^-unit, an
\* area of v square steps is v * 2^-(2 unit).
\* abs(v * 2^-e) < 1 / inv, exactly
UnderTolerance(v, e, inv) == v = 0 \/ BigLess(BigMul(BigOf(Abs(v)), inv), BigPow2(e))

\* ------------------------------------------------------------------ Point2D
Point2D(px, py) == [x |-> px, y |-> py]

PointSub(p, q) == Point2D(p.x - q.x, p.y - q.y)

Cross(p, q) == p.x * q.y - p.y * q.x

Dot(p, q) == p.x * q.x + p.y * q.y

\* Square of Point2D::DistanceTo: the distance itself is a square root.
DistanceSq(p, q) == Dot(PointSub(p, q), PointSub(p, q))

Coords == 0 .. MaxCoord

\* ============================================================ triangulation
\* The caller's points are whole steps of 2^-20 or of 1; the triangulation
\* counts in half steps (with steps of 1 the point (1, 0.5) is [x |-> 2, y |-> 1]),
\* so that the centre of the bounding box and the super-triangle built around
\* it are lattice points.
Half(p) == Point2D(2 * p.x, 2 * p.y)

DelaunayTriangle(pa, pb, pc) == [a |-> pa, b |-> pb, c |-> pc]

\* 1 / 1e-10, the tolerance of every comparison of triangulation.hpp
InverseTolerance == BigMul(BigOf(10^5), BigOf(10^5))

\* 2^-e is known to be more than 1e-10: 2^e < 1e10, for the e with 2^e a
\* machine integer.
Coarse(e) == e <= 30 /\ (2^e) \div 10 < 10^9

\* abs(v - w) < 1e-10 for two coordinates: on a coarse lattice, v = w
Near(v, w, unit) ==
    v = w \/ (~Coarse(unit) /\ UnderTolerance(v - w, unit, InverseTolerance))

\* Circumcenter as (nx / den, ny / den); a triple with abs(d) < 1e-10 falls
\* back to the centroid.  Where a square step is more than 1e-10 that is d = 0.
Circumcenter(t, unit) ==
    LET a == t.a
        b == t.b
        c == t.c
        d == 2 * (a.x * (b.y - c.y) + b.x * (c.y - a.y) + c.x * (a.y - b.y))
        sa == a.x * a.x + a.y * a.y
        sb == b.x * b.x + b.y * b.y
        sc == c.x * c.x + c.y * c.y
    IN  IF d = 0 \/ (~Coarse(2 * unit) /\ UnderTolerance(d, 2 * unit, InverseTolerance))
        THEN [nx |-> a.x + b.x + c.x, ny |-> a.y + b.y + c.y, den |-> 3]
        ELSE [nx |-> sa * (b.y - c.y) + sb * (c.y - a.y) + sc * (a.y - b.y),
              ny |-> sa * (c.x - b.x) + sb * (a.x - c.x) + sc * (b.x - a.x),
              den |-> d]

\* center.DistanceTo(p) <= radius + 1e-10, where radius is center.DistanceTo(a).
\* With center = (nx, ny) / den, dist = center.DistanceTo(p) and
\*    dot = (a.x - p.x) (2 nx - den (p.x + a.x)) + (a.y - p.y) (2 ny - den (p.y + a.y))
\* one has  dist^2 - radius^2 = dot / den, so dist <= radius when dot / den <= 0.
\* Otherwise, with T = 1e10, s = |dot|, k = unit and rr = (|den| radius)^2,
\*    dist <= radius + 2^k / T   iff   T^2 s <= |den| 4^k
\*                                     or (T^2 s - |den| 4^k)^2 <= 4^(k+1) T^2 rr.
\* Either needs s <= tol (2 |den| radius + |den| tol) for tol = 2^k / T.  For
\* k <= 30 one has tol < 2^-(30 - k) <= 1 and |den| radius <= |rx| + |ry|, so
\* neither holds when s > (2 (|rx| + |ry|) + |den|) / 2^(30 - k).
ContainsPoint(t, p, unit) ==
    LET c == Circumcenter(t, unit)
        a == t.a
        u1 == a.x - p.x
        v1 == 2 * c.nx - c.den * (p.x + a.x)
        u2 == a.y - p.y
        v2 == 2 * c.ny - c.den * (p.y + a.y)
        s == BigAbsDot(u1, v1, u2, v2)
        tt == BigMul(InverseTolerance, InverseTolerance)
        excess == BigMul(tt, s)
        reach == BigMul(BigOf(Abs(c.den)), BigPow2(2 * unit))
        rx == Abs(c.nx - c.den * a.x)
        ry == Abs(c.ny - c.den * a.y)
        rr == BigAdd(BigMul(BigOf(rx), BigOf(rx)), BigMul(BigOf(ry), BigOf(ry)))
        gap == BigSub(excess, reach)
        far == (2 * (rx + ry) + Abs(c.den)) \div 2^(30 - unit) + 1
    IN  \/ Sign(c.den) * SignOfDot(u1, v1, u2, v2) <= 0
        \/ /\ ~(Coarse(unit) /\ AbsDotAtLeast(u1, v1, u2, v2, far))
           /\ \/ BigLeq(excess, reach)
              \/ BigLeq(BigMul(gap, gap), BigMul(BigPow2(2 * unit + 2), BigMul(tt, rr)))

\* Edge: the constructor orders the two points by x, then y.
\* An edge that keeps its end points in the order given.
EdgeAsGiven(q1, q2) == [p1 |-> q1, p2 |-> q2]

Edge(q1, q2) ==
    IF q1.x > q2.x \/ (q1.x = q2.x /\ q1.y > q2.y)
    THEN [p1 |-> q2, p2 |-> q1]
    ELSE [p1 |-> q1, p2 |-> q2]

\* abs(v - w) > 1e-10 for two coordinates: on a coarse lattice, v # w
Apart(v, w, unit) ==
    /\ v # w
    /\ \/ Coarse(unit)
       \/ BigLess(BigPow2(unit), BigMul(BigOf(Abs(v - w)), InverseTolerance))

\* Edge::operator<
EdgeLess(e, f, unit) ==
    IF Apart(e.p1.x, f.p1.x, unit) THEN e.p1.x < f.p1.x
    ELSE IF Apart(e.p1.y, f.p1.y, unit) THEN e.p1.y < f.p1.y
    ELSE IF Apart(e.p2.x, f.p2.x, unit) THEN e.p2.x < f.p2.x
    ELSE e.p2.y < f.p2.y

\* std::set<Edge>: two edges are the same element when neither is less.
EdgeEquiv(e, f, unit) == ~EdgeLess(e, f, unit) /\ ~EdgeLess(f, e, unit)

\* Edge::operator==
EdgeEqual(e, f, unit) ==
    /\ Near(e.p1.x, f.p1.x, unit)
    /\ Near(e.p1.y, f.p1.y, unit)
    /\ Near(e.p2.x, f.p2.x, unit)
    /\ Near(e.p2.y, f.p2.y, unit)

\* if (!polygon.erase(e)) polygon.insert(e);
ToggleEdge(polygon, e, unit) ==
    IF \E f \in polygon : EdgeEquiv(e, f, unit)
    THEN {f \in polygon : ~EdgeEquiv(e, f, unit)}
    ELSE polygon \cup {e}

\* The three toggles of one bad triangle, in the order e1, e2, e3.
ToggleTriangle(polygon, t, unit) ==
    ToggleEdge(ToggleEdge(ToggleEdge(polygon, Edge(t.a, t.b), unit), Edge(t.b, t.c), unit),
               Edge(t.c, t.a), unit)

\* The first loop over `triangles` for one point: bad_triangles and polygon.
RECURSIVE CollectBad(_, _, _, _, _, _)
CollectBad(tris, point, k, bad, polygon, unit) ==
    IF k > Len(tris) THEN [bad |-> bad, polygon |-> polygon]
    ELSE IF ContainsPoint(tris[k], point, unit)
         THEN CollectBad(tris, point, k + 1, Append(bad, tris[k]),
                         ToggleTriangle(polygon, tris[k], unit), unit)
         ELSE CollectBad(tris, point, k + 1, bad, polygon, unit)

\* abs(p.x - q.x) < 1e-10 && abs(p.y - q.y) < 1e-10
NearPoint(p, q, unit) == Near(p.x, q.x, unit) /\ Near(p.y, q.y, unit)

\* The predicate of the first erase_if: t matches a bad triangle vertex by vertex.
MatchesBad(t, bad, unit) ==
    \E k \in 1 .. Len(bad) :
        /\ NearPoint(t.a, bad[k].a, unit)
        /\ NearPoint(t.b, bad[k].b, unit)
        /\ NearPoint(t.c, bad[k].c, unit)

\* Iteration order of std::set<Edge>: ascending by operator<.
RECURSIVE EdgesInOrder(_, _)
EdgesInOrder(polygon, unit) ==
    IF polygon = {} THEN <<>>
    ELSE LET m == CHOOSE e \in polygon : \A f \in polygon : ~EdgeLess(f, e, unit)
         IN  <<m>> \o EdgesInOrder(polygon \ {m}, unit)

\* for (edge : polygon) triangles.emplace_back(edge.p1, edge.p2, point);
RECURSIVE Retriangulate(_, _)
Retriangulate(edges, point) ==
    IF edges = <<>> THEN <<>>
    ELSE <<DelaunayTriangle(Head(edges).p1, Head(edges).p2, point)>>
         \o Retriangulate(Tail(edges), point)

\* The super-triangle around the bounding box of the input.
SuperTriangle(points) ==
    LET xs == {points[k].x : k \in 1 .. Len(points)}
        ys == {points[k].y : k \in 1 .. Len(points)}
        dx == SetMax(xs) - SetMin(xs)
        dy == SetMax(ys) - SetMin(ys)
        dmax == Max2(dx, dy)
        center == Point2D((SetMin(xs) + SetMax(xs)) \div 2, (SetMin(ys) + SetMax(ys)) \div 2)
    IN  << Point2D(center.x - 20 * dmax, center.y - dmax),
           Point2D(center.x, center.y + 20 * dmax),
           Point2D(center.x + 20 * dmax, center.y - dmax) >>

\* A last erase_if that knows the first super-triangle vertex only.
TouchesFirstSuper(t, super, unit) ==
    \/ NearPoint(t.a, super[1], unit)
    \/ NearPoint(t.b, super[1], unit)
    \/ NearPoint(t.c, super[1], unit)

\* A last erase_if that looks at the vertex a only.
TouchesSuperAtA(t, super, unit) == \E k \in 1 .. 3 : NearPoint(t.a, super[k], unit)

\* The predicate of the last erase_if: a vertex of t is a super-triangle vertex.
TouchesSuper(t, super, unit) ==
    \E k \in 1 .. 3 :
        \/ NearPoint(t.a, super[k], unit)
        \/ NearPoint(t.b, super[k], unit)
        \/ NearPoint(t.c, super[k], unit)

TriangulationError == "At least three points are required for triangulation."

\* Input points of the triangulation: two rows of the lattice.
DTGrid == {Point2D(cx, cy) : cx \in Coords, cy \in {0, 1}}

DTInputs == UNION {[1 .. n -> {Half(p) : p \in DTGrid}] : n \in 0 .. MaxPoints}

\* The lattices of the inputs, in half steps: steps of 1 are 2 half steps of
\* 2^-1, steps of 2^-20 (about 1e-6) are 2 half steps of 2^-21.
DTUnits == {1, 21}

DTIdle ==
    /\ dtUnit = 0
    /\ dtPoints = <<>>
    /\ dtSuper = <<>>
    /\ dtTriangles = <<>>
    /\ dtBad = <<>>
    /\ dtPolygon = {}
    /\ dtI = 0
    /\ dtPc = "idle"
    /\ dtOutcome = [kind |-> "idle"]

DTInit ==
    /\ dtUnit \in DTUnits
    /\ dtPoints \in DTInputs
    /\ dtSuper = <<>>
    /\ dtTriangles = <<>>
    /\ dtBad = <<>>
    /\ dtPolygon = {}
    /\ dtI = 0
    /\ dtPc = "call"
    /\ dtOutcome = [kind |-> "running"]

\* A size test that counts the distinct points.
TooFewDistinct(points) == Cardinality({points[k] : k \in 1 .. Len(points)}) < 3

\* points.size() < 3
TooFew(points) == Len(points) < 3

\* if (points.size() < 3) throw std::logic_error(...)
DTThrow ==
    /\ dtPc = "call"
    /\ TooFew(dtPoints)
    /\ dtOutcome' = [kind |-> "throw", what |-> TriangulationError]
    /\ dtPc' = "done"
    /\ UNCHANGED <<dtUnit, dtPoints, dtSuper, dtTriangles, dtBad, dtPolygon, dtI>>
    /\ UNCHANGED <<ghVars, ixVars, quVars>>

\* The bounding box, the super-triangle and the seed of `triangles`.
DTSeed ==
    /\ dtPc = "call"
    /\ ~TooFew(dtPoints)
    /\ dtSuper' = SuperTriangle(dtPoints)
    /\ dtTriangles' = <<DelaunayTriangle(dtSuper'[1], dtSuper'[2], dtSuper'[3])>>
    /\ dtPc' = "insert"
    /\ UNCHANGED <<dtUnit, dtPoints, dtBad, dtPolygon, dtI, dtOutcome>>
    /\ UNCHANGED <<ghVars, ixVars, quVars>>

\* One iteration of for (point : points).
DTInsert ==
    /\ dtPc = "insert"
    /\ dtI < Len(dtPoints)
    /\ LET point == dtPoints[dtI + 1]
           col == CollectBad(dtTriangles, point, 1, <<>>, {}, dtUnit)
           kept == SelectSeq(dtTriangles, LAMBDA t : ~MatchesBad(t, col.bad, dtUnit))
       IN  /\ dtBad' = col.bad
           /\ dtPolygon' = col.polygon
           /\ dtTriangles' = kept \o Retriangulate(EdgesInOrder(col.polygon, dtUnit), point)
    /\ dtI' = dtI + 1
    /\ UNCHANGED <<dtUnit, dtPoints, dtSuper, dtPc, dtOutcome>>
    /\ UNCHANGED <<ghVars, ixVars, quVars>>

\* The last erase_if and the return.
DTFinish ==
    /\ dtPc = "insert"
    /\ dtI = Len(dtPoints)
    /\ dtTriangles' = SelectSeq(dtTriangles, LAMBDA t : ~TouchesSuper(t, dtSuper, dtUnit))
    /\ dtOutcome' = [kind |-> "value", triangles |-> dtTriangles']
    /\ dtPc' = "done"
    /\ UNCHANGED <<dtUnit, dtPoints, dtSuper, dtBad, dtPolygon, dtI>>
    /\ UNCHANGED <<ghVars, ixVars, quVars>>

DTNext == DTThrow \/ DTSeed \/ DTInsert \/ DTFinish

\* =============================================================== convex hull
CrossProduct(p1, middle, p2) == Cross(PointSub(p1, middle), PointSub(p2, middle))

\* The comparator of std::min_element: lowest y, then lowest x.
PivotLess(a, b) == a.y < b.y \/ (a.y = b.y /\ a.x < b.x)

\* std::min_element returns the first element no other element is less than.
MinElement(points) ==
    CHOOSE k \in 1 .. Len(points) :
        /\ \A j \in 1 .. Len(points) : ~PivotLess(points[j], points[k])
        /\ \A j \in 1 .. k - 1 : PivotLess(points[k], points[j])

\* std::iter_swap(points.begin(), min_it)
IterSwap(points, k) ==
    [j \in 1 .. Len(points) |->
        IF j = 1 THEN points[k] ELSE IF j = k THEN points[1] ELSE points[j]]

\* 1 / precision of the comparator of std::sort (precision = 1e-10).
InversePrecision == BigMul(BigOf(10^5), BigOf(10^5))

\* The comparator of std::sort: when abs(cross) < precision the nearer point
\* is less, otherwise the one that is clockwise of the other around the pivot.
AngleLess(pivot, a, b, unit) ==
    LET cross == Cross(PointSub(a, pivot), PointSub(b, pivot))
    IN  IF UnderTolerance(cross, 2 * unit, InversePrecision)
        THEN DistanceSq(pivot, a) < DistanceSq(pivot, b)
        ELSE cross > 0

\* std::sort: the orders of the elements of seq in which no element is less
\* than an earlier one.  The order of equivalent elements is unspecified.
SortedOrders(pivot, seq, unit) ==
    LET orders == {[i \in 1 .. Len(seq) |-> seq[pi[i]]] : pi \in Permutations(1 .. Len(seq))}
    IN  {o \in orders :
            \A i \in 1 .. Len(o) : \A j \in i + 1 .. Len(o) : ~AngleLess(pivot, o[j], o[i], unit)}

\* StackForGrahamScan
StackSize(hull) == Len(hull)

StackTop(hull) == hull[Len(hull)]

StackNextToTop(hull) == hull[Len(hull) - 1]

StackPop(hull) == SubSeq(hull, 1, Len(hull) - 1)

StackPush(hull, p) == Append(hull, p)

StackExtract(hull) == hull

\* A scan that pops on a counter-clockwise turn.
ScanPopsOnLeftTurn(hull, new_p) ==
    StackSize(hull) > 1 /\ CrossProduct(StackNextToTop(hull), StackTop(hull), new_p) < 0

\* The condition of the inner while loop of the scan.
ScanPops(hull, new_p) ==
    StackSize(hull) > 1 /\ CrossProduct(StackNextToTop(hull), StackTop(hull), new_p) > 0

\* while (ScanPops) hull.Pop();
RECURSIVE PopWhile(_, _)
PopWhile(hull, new_p) ==
    IF ScanPops(hull, new_p) THEN PopWhile(StackPop(hull), new_p) ELSE hull

ConvexHullError == "At least three points are required for convex hull."

\* A size check that lets two points through.
TooFewPointsBelowTwo(points) == Len(points) < 2

\* points.size() < 3
TooFewPoints(points) == Len(points) < 3

\* Input points of the scan: three rows of the lattice.
GHGrid == {Point2D(cx, cy) : cx \in Coords, cy \in {0, 1, 2}}

\* The corners of the unit square and its centre, counted in halves.
SquareWithCentre ==
    <<Point2D(0, 0), Point2D(2, 0), Point2D(2, 2), Point2D(0, 2), Point2D(1, 1)>>

GHInputs == UNION {[1 .. n -> GHGrid] : n \in 0 .. MaxHullInput}

\* The lattices of the inputs: steps of 1 and steps of 2^-20 (about 1e-6).
GHUnits == {0, 20}

GHIdle ==
    /\ ghUnit = 0
    /\ ghInput = <<>>
    /\ ghPoints = <<>>
    /\ ghHull = <<>>
    /\ ghI = 0
    /\ ghPc = "idle"
    /\ ghOutcome = [kind |-> "idle"]

GHInit ==
    /\ \/ ghUnit \in GHUnits /\ ghInput \in GHInputs
       \/ ghUnit = 1 /\ ghInput = SquareWithCentre
    /\ ghPoints = ghInput
    /\ ghHull = <<>>
    /\ ghI = 0
    /\ ghPc = "call"
    /\ ghOutcome = [kind |-> "running"]

\* if (points.size() < 3) return std::unexpected(...)
GHTooFew ==
    /\ ghPc = "call"
    /\ TooFewPoints(ghPoints)
    /\ ghOutcome' = [kind |-> "unexpected", error |-> ConvexHullError]
    /\ ghPc' = "done"
    /\ UNCHANGED <<ghUnit, ghInput, ghPoints, ghHull, ghI>>
    /\ UNCHANGED <<dtVars, ixVars, quVars>>

\* min_element, iter_swap and sort of the tail around the pivot.
GHSort ==
    /\ ghPc = "call"
    /\ ~TooFewPoints(ghPoints)
    /\ LET swapped == IterSwap(ghPoints, MinElement(ghPoints))
           pivot == swapped[1]
       IN  \E sorted \in SortedOrders(pivot, Tail(swapped), ghUnit) :
               ghPoints' = <<pivot>> \o sorted
    /\ ghPc' = "scan"
    /\ UNCHANGED <<ghUnit, ghInput, ghHull, ghI, ghOutcome>>
    /\ UNCHANGED <<dtVars, ixVars, quVars>>

\* One iteration of for (new_p : points): the pops, then the push.
GHScan ==
    /\ ghPc = "scan"
    /\ ghI < Len(ghPoints)
    /\ ghHull' = StackPush(PopWhile(ghHull, ghPoints[ghI + 1]), ghPoints[ghI + 1])
    /\ ghI' = ghI + 1
    /\ UNCHANGED <<ghUnit, ghInput, ghPoints, ghPc, ghOutcome>>
    /\ UNCHANGED <<dtVars, ixVars, quVars>>

\* return std::vector{hull.Extract()};
GHReturn ==
    /\ ghPc = "scan"
    /\ ghI = Len(ghPoints)
    /\ ghOutcome' = [kind |-> "value", hull |-> StackExtract(ghHull)]
    /\ ghPc' = "done"
    /\ UNCHANGED <<ghUnit, ghInput, ghPoints, ghHull, ghI>>
    /\ UNCHANGED <<dtVars, ixVars, quVars>>

GHNext == GHTooFew \/ GHSort \/ GHScan \/ GHReturn

\* ============================================================= intersections
\* Shape = std::variant<Line, Triangle, Rectangle, RegularPolygon, Circle, Polygon>
Line(s, e) == [kind |-> "Line", start |-> s, end |-> e]

Triangle(pa, pb, pc) == [kind |-> "Triangle", a |-> pa, b |-> pb, c |-> pc]

Rectangle(bl, w, h) == [kind |-> "Rectangle", bottom_left |-> bl, width |-> w, height |-> h]

RegularPolygon(c, r, n) == [kind |-> "RegularPolygon", center_p |-> c, radius |-> r, sides |-> n]

Circle(c, r) == [kind |-> "Circle", center_p |-> c, radius |-> r]

Polygon(pts) == [kind |-> "Polygon", points_ |-> pts]

ShapeKinds == {"Line", "Triangle", "Rectangle", "RegularPolygon", "Circle", "Polygon"}

\* A returned point: x = (nx + sx * sqrt(q)) / den, y = (ny + sy * sqrt(q)) / den.
ExactPoint(pnx, pny, psx, psy, pq, pden) ==
    [nx |-> pnx, ny |-> pny, sx |-> psx, sy |-> psy, q |-> pq, den |-> pden]

Nullopt == [kind |-> "nullopt"]

Some(pt) == [kind |-> "point", point |-> pt]

\* sqrt(q) <= m  and  sqrt(q) >= m, for integers q >= 0 and m
SqrtLeq(q, m) == m >= 0 /\ q <= m * m

SqrtGeq(q, m) == m <= 0 \/ q >= m * m

\* 1 / EPS  (EPS = 1e-9)
InverseEPS == BigOf(10^9)

\* abs(v * 2^-e) <= EPS
WithinEPS(v, e) == BigLeq(BigMul(BigOf(Abs(v)), InverseEPS), BigPow2(e))

\* sqrt(dd) * 2^-unit < m * 2^-unit + sg * EPS, for integers dd, m >= 0 and
\* sg = 1 or -1: with T = 1e9,  T^2 dd < (T m + sg 2^unit)^2 and the bracket is
\* positive.
RootBelow(dd, m, sg, unit) ==
    LET tm == BigMul(BigOf(m), InverseEPS)
        pw == BigPow2(unit)
        bound == IF sg = 1 THEN BigAdd(tm, pw) ELSE BigSub(tm, pw)
    IN  /\ sg = 1 \/ BigLess(pw, tm)
        /\ BigLess(BigMul(BigOf(dd), BigMul(InverseEPS, InverseEPS)), BigMul(bound, bound))

\* sqrt(dd) * 2^-unit > m * 2^-unit + EPS
RootAbove(dd, m, unit) ==
    LET bound == BigAdd(BigMul(BigOf(m), InverseEPS), BigPow2(unit))
    IN  BigLess(BigMul(bound, bound), BigMul(BigOf(dd), BigMul(InverseEPS, InverseEPS)))

\* A segment solver that answers a collinear pair with the start of l2 when
\* that point lies on l1.
LineLineResolvingOverlap(l1, l2, unit) ==
    LET r == PointSub(l1.end, l1.start)
        s == PointSub(l2.end, l2.start)
        w == PointSub(l2.start, l1.start)
    IN  IF Cross(r, s) = 0 /\ Cross(w, r) = 0 /\ Dot(w, r) >= 0 /\ Dot(w, r) <= Dot(r, r)
        THEN Some(ExactPoint(l2.start.x, l2.start.y, 0, 0, 0, 1))
        ELSE Nullopt

\* operator()(const Line &, const Line &)
LineLine(l1, l2, unit) ==
    LET r == PointSub(l1.end, l1.start)
        s == PointSub(l2.end, l2.start)
        w == PointSub(l2.start, l1.start)
        r_cross_s == Cross(r, s)
        tn == Cross(w, s) * Sign(r_cross_s)     \* t = tn / dn, u = un / dn, dn > 0
        un == Cross(w, r) * Sign(r_cross_s)
        dn == Abs(r_cross_s)
    IN  IF UnderTolerance(r_cross_s, 2 * unit, InverseEPS)
        THEN Nullopt
        ELSE IF tn >= 0 /\ tn <= dn /\ un >= 0 /\ un <= dn
             THEN Some(ExactPoint(l1.start.x * dn + r.x * tn, l1.start.y * dn + r.y * tn,
                                  0, 0, 0, dn))
             ELSE Nullopt

\* intersectLineCircle.  t1, t2 = (-b -+ sqrt(discriminant)) / (2 a).
IntersectLineCircle(line, circle, unit) ==
    LET d == PointSub(line.end, line.start)
        f == PointSub(line.start, circle.center_p)
        a == Dot(d, d)
        b == 2 * Dot(f, d)
        c == Dot(f, f) - circle.radius * circle.radius
        discriminant == b * b - 4 * a * c
        \* line.start + d * ((-b + sg * sqrt(discriminant)) / (2 a))
        At(sg) == ExactPoint(line.start.x * 2 * a - d.x * b, line.start.y * 2 * a - d.y * b,
                             sg * d.x, sg * d.y, IF sg = 0 THEN 0 ELSE discriminant, 2 * a)
        \* 0 <= t1 <= 1:  sqrt(disc) <= -b  and  sqrt(disc) >= -b - 2a
        t1In == SqrtLeq(discriminant, -b) /\ SqrtGeq(discriminant, -b - 2 * a)
        \* 0 <= t2 <= 1:  sqrt(disc) >= b  and  sqrt(disc) <= b + 2a
        t2In == SqrtGeq(discriminant, b) /\ SqrtLeq(discriminant, b + 2 * a)
    IN  IF UnderTolerance(a, 2 * unit, InverseEPS)         \* the segment is a point
        THEN IF UnderTolerance(c, 2 * unit, InverseEPS)
             THEN Some(ExactPoint(line.start.x, line.start.y, 0, 0, 0, 1))
             ELSE Nullopt
        ELSE IF discriminant < 0 /\ ~WithinEPS(discriminant, 4 * unit)
        THEN Nullopt
        ELSE IF WithinEPS(discriminant, 4 * unit)
        THEN IF -b >= 0 /\ -b <= 2 * a THEN Some(At(0)) ELSE Nullopt
        ELSE IF t1In THEN Some(At(-1))
        ELSE IF t2In THEN Some(At(1))
        ELSE Nullopt

\* A separation test that also rejects touching circles.
CirclesApartOrTouching(dd, r1, r2, unit) == ~RootBelow(dd, r1 + r2, 1, unit) \/ dd = (r1 + r2) * (r1 + r2)

\* dist > c1.radius + c2.radius + EPS, with dist = sqrt(dd)
CirclesApart(dd, r1, r2, unit) == RootAbove(dd, r1 + r2, unit)

\* dist + min(r1, r2) < max(r1, r2) - EPS
CircleInside(dd, r1, r2, unit) == RootBelow(dd, Max2(r1, r2) - Min2(r1, r2), -1, unit)

\* operator()(const Circle &, const Circle &).  With dd = dist^2 and
\* aa = r1^2 - r2^2 + dd:  a = aa / (2 dist),  h_sq = hh / (4 dd) for
\* hh = 4 dd r1^2 - aa^2,  ex * a = d * aa / (2 dd)  and
\* ey * h = (-d.y, d.x) * sqrt(max(hh, 0)) / (2 dd).
CircleCircle(c1, c2, unit) ==
    LET d == PointSub(c2.center_p, c1.center_p)
        dd == Dot(d, d)
        aa == c1.radius * c1.radius - c2.radius * c2.radius + dd
        hh == 4 * dd * c1.radius * c1.radius - aa * aa
    IN  IF RootBelow(dd, 0, 1, unit)             \* dist < EPS
        THEN Nullopt
        ELSE IF CirclesApart(dd, c1.radius, c2.radius, unit)
        THEN Nullopt
        ELSE IF CircleInside(dd, c1.radius, c2.radius, unit)
        THEN Nullopt
        ELSE IF hh < 0 /\ BigLess(BigMul(BigOf(4 * dd), BigPow2(2 * unit)),
                                  BigMul(BigOf(-hh), InverseEPS))     \* h_sq < -EPS
        THEN Nullopt
        ELSE Some(ExactPoint(2 * dd * c1.center_p.x + d.x * aa,
                             2 * dd * c1.center_p.y + d.y * aa,
                             -d.y, d.x, Max2(hh, 0), 2 * dd))

IntersectionError == "Intersection not supported for these types"

\* A catch-all overload that answers "no intersection".
UnsupportedAsNullopt(t, u) == Nullopt

\* template <typename T, typename U> operator()(const T &, const U &)
Unsupported(t, u) == [kind |-> "throw", type |-> "logic_error", what |-> IntersectionError]

\* std::visit(IntersectionVisitor{}, shape1, shape2): the overload the kinds select.
GetIntersectPoint(shape1, shape2, unit) ==
    IF shape1.kind = "Line" /\ shape2.kind = "Line"
    THEN LineLine(shape1, shape2, unit)
    ELSE IF shape1.kind = "Line" /\ shape2.kind = "Circle"
    THEN IntersectLineCircle(shape1, shape2, unit)
    ELSE IF shape1.kind = "Circle" /\ shape2.kind = "Line"
    THEN IntersectLineCircle(shape2, shape1, unit)
    ELSE IF shape1.kind = "Circle" /\ shape2.kind = "Circle"
    THEN CircleCircle(shape1, shape2, unit)
    ELSE Unsupported(shape1, shape2)

IXGrid == {Point2D(cx, cy) : cx \in Coords, cy \in Coords}

IXLines == {Line(s, e) : s \in IXGrid, e \in IXGrid}

IXCircles == {Circle(c, r) : c \in IXGrid, r \in 1 .. MaxRadius}

\* One shape of each kind the solver has no overload for.
IXOthers ==
    { Triangle(Point2D(0, 0), Point2D(1, 0), Point2D(0, 1)),
      Rectangle(Point2D(0, 0), 1, 1),
      RegularPolygon(Point2D(0, 0), 1, 3),
      Polygon(<<Point2D(0, 0), Point2D(1, 0), Point2D(1, 1)>>) }

IXShapes == IXLines \cup IXCircles \cup IXOthers

IXIdle ==
    /\ ixUnit = 0
    /\ ixFirst = [kind |-> "none"]
    /\ ixSecond = [kind |-> "none"]
    /\ ixPrev = [kind |-> "none"]
    /\ ixOutcome = [kind |-> "none"]
    /\ ixPc = "idle"

\* The lattices of the inputs: steps of 1 and steps of 2^-30 (about 1e-9).
IXUnits == {0, 30}

IXInit ==
    /\ ixUnit \in IXUnits
    /\ ixFirst \in IXShapes
    /\ ixSecond \in IXShapes
    /\ ixPrev = [kind |-> "none"]
    /\ ixOutcome = [kind |-> "none"]
    /\ ixPc = "call"

IXCalling == ixPc \in {"call", "recall"}

IXReturn(outcome) ==
    /\ ixOutcome' = outcome
    /\ ixPc' = IF ixPc = "call" THEN "swap" ELSE "done"
    /\ UNCHANGED <<ixUnit, ixFirst, ixSecond, ixPrev>>

IXLineLine ==
    /\ IXCalling
    /\ ixFirst.kind = "Line" /\ ixSecond.kind = "Line"
    /\ IXReturn(GetIntersectPoint(ixFirst, ixSecond, ixUnit))
    /\ UNCHANGED <<dtVars, ghVars, quVars>>

IXLineCircle ==
    /\ IXCalling
    /\ ixFirst.kind = "Line" /\ ixSecond.kind = "Circle"
    /\ IXReturn(GetIntersectPoint(ixFirst, ixSecond, ixUnit))
    /\ UNCHANGED <<dtVars, ghVars, quVars>>

IXCircleLine ==
    /\ IXCalling
    /\ ixFirst.kind = "Circle" /\ ixSecond.kind = "Line"
    /\ IXReturn(GetIntersectPoint(ixFirst, ixSecond, ixUnit))
    /\ UNCHANGED <<dtVars, ghVars, quVars>>

IXCircleCircle ==
    /\ IXCalling
    /\ ixFirst.kind = "Circle" /\ ixSecond.kind = "Circle"
    /\ IXReturn(GetIntersectPoint(ixFirst, ixSecond, ixUnit))
    /\ UNCHANGED <<dtVars, ghVars, quVars>>

IXUnsupported ==
    /\ IXCalling
    /\ ixFirst.kind \notin {"Line", "Circle"} \/ ixSecond.kind \notin {"Line", "Circle"}
    /\ IXReturn(GetIntersectPoint(ixFirst, ixSecond, ixUnit))
    /\ UNCHANGED <<dtVars, ghVars, quVars>>

\* The caller repeats the call with the two shapes in the other order.
IXSwap ==
    /\ ixPc = "swap"
    /\ ixFirst' = ixSecond
    /\ ixSecond' = ixFirst
    /\ ixPrev' = ixOutcome
    /\ ixOutcome' = [kind |-> "none"]
    /\ ixPc' = "recall"
    /\ UNCHANGED <<ixUnit, dtVars, ghVars, quVars>>

IXNext ==
    IXLineLine \/ IXLineCircle \/ IXCircleLine \/ IXCircleCircle \/ IXUnsupported \/ IXSwap

\* ================================================================== queries
\* Coordinates, sizes and radii of the shapes are integers (steps of 1):
\* every query below compares and adds them without a tolerance.

\* BoundingBox
BoundingBox(x0, y0, x1, y1) == [min_x |-> x0, min_y |-> y0, max_x |-> x1, max_y |-> y1]

\* An overlap test that looks at one side of each axis only.
OverlapsOneSided(a, b) == ~(a.max_x < b.min_x \/ a.max_y < b.min_y)

\* An overlap test that separates boxes which merely touch.
OverlapsStrict(a, b) ==
    ~(a.max_x <= b.min_x \/ a.min_x >= b.max_x \/ a.max_y <= b.min_y \/ a.min_y >= b.max_y)

\* BoundingBox::Overlaps
Overlaps(a, b) ==
    ~(a.max_x < b.min_x \/ a.min_x > b.max_x \/ a.max_y < b.min_y \/ a.min_y > b.max_y)

\* Line::BoundBox
LineBoundBox(l) ==
    BoundingBox(Min2(l.start.x, l.end.x), Min2(l.start.y, l.end.y),
                Max2(l.start.x, l.end.x), Max2(l.start.y, l.end.y))

\* Triangle::BoundBox
TriangleBoundBox(t) ==
    BoundingBox(SetMin({t.a.x, t.b.x, t.c.x}), SetMin({t.a.y, t.b.y, t.c.y}),
                SetMax({t.a.x, t.b.x, t.c.x}), SetMax({t.a.y, t.b.y, t.c.y}))

\* Rectangle::BoundBox
RectangleBoundBox(r) ==
    BoundingBox(r.bottom_left.x, r.bottom_left.y,
                r.bottom_left.x + r.width, r.bottom_left.y + r.height)

\* RegularPolygon::BoundBox
RegularPolygonBoundBox(p) ==
    BoundingBox(p.center_p.x - p.radius, p.center_p.y - p.radius,
                p.center_p.x + p.radius, p.center_p.y + p.radius)

\* Circle::BoundBox
CircleBoundBox(c) ==
    BoundingBox(c.center_p.x - c.radius, c.center_p.y - c.radius,
                c.center_p.x + c.radius, c.center_p.y + c.radius)

\* Polygon::CalculateBoundBox: the loop over points_ from its k-th element on,
\* started by the constructor with the box of points_[0].
RECURSIVE CalculateBoundBox(_, _, _)
CalculateBoundBox(points, k, box) ==
    IF k > Len(points)
    THEN box
    ELSE LET p == points[k]
         IN  CalculateBoundBox(points, k + 1,
                 BoundingBox(IF p.x < box.min_x THEN p.x ELSE box.min_x,
                             IF p.y < box.min_y THEN p.y ELSE box.min_y,
                             IF p.x > box.max_x THEN p.x ELSE box.max_x,
                             IF p.y > box.max_y THEN p.y ELSE box.max_y))

\* Polygon::BoundBox: the box the constructor stored
PolygonBoundBox(p) ==
    LET first == p.points_[1]
    IN  CalculateBoundBox(p.points_, 1, BoundingBox(first.x, first.y, first.x, first.y))

\* GetBoundBox
GetBoundBox(shape) ==
    CASE shape.kind = "Line" -> LineBoundBox(shape)
      [] shape.kind = "Triangle" -> TriangleBoundBox(shape)
      [] shape.kind = "Rectangle" -> RectangleBoundBox(shape)
      [] shape.kind = "RegularPolygon" -> RegularPolygonBoundBox(shape)
      [] shape.kind = "Circle" -> CircleBoundBox(shape)
      [] shape.kind = "Polygon" -> PolygonBoundBox(shape)

\* Line::Height
LineHeight(l) == Max2(l.start.y, l.end.y)

\* Triangle::Height
TriangleHeight(t) == SetMax({t.a.y, t.b.y, t.c.y})

\* Rectangle::Height
RectangleHeight(r) == r.bottom_left.y + r.height

\* RegularPolygon::Height
RegularPolygonHeight(p) == p.center_p.y + p.radius

\* Circle::Height
CircleHeight(c) == c.center_p.y + c.radius

\* Polygon::Height
PolygonHeight(p) ==
    LET box == PolygonBoundBox(p)
    IN  box.max_y - box.min_y

\* GetHeight
GetHeight(shape) ==
    CASE shape.kind = "Line" -> LineHeight(shape)
      [] shape.kind = "Triangle" -> TriangleHeight(shape)
      [] shape.kind = "Rectangle" -> RectangleHeight(shape)
      [] shape.kind = "RegularPolygon" -> RegularPolygonHeight(shape)
      [] shape.kind = "Circle" -> CircleHeight(shape)
      [] shape.kind = "Polygon" -> PolygonHeight(shape)

\* BoundingBoxesOverlap
BoundingBoxesOverlap(shape1, shape2) == Overlaps(GetBoundBox(shape1), GetBoundBox(shape2))

\* ---- distances
\* A distance is max(0, sqrt(num / den) - minus) with integers num >= 0,
\* den > 0, minus >= 0, kept in lowest terms, so that equal distances are
\* equal records. The code's doubles round these reals; the rounding is not
\* modelled.
Distance(num, den, minus) ==
    LET RECURSIVE GCD(_, _)
        GCD(m, n) == IF n = 0 THEN m ELSE GCD(n, m % n)
        g == GCD(num, den)
    IN  IF num <= minus * minus * den
        THEN [num |-> 0, den |-> 1, minus |-> 0]
        ELSE [num |-> num \div g, den |-> den \div g, minus |-> minus]

\* Point2D::DistanceTo
DistanceTo(p, q) == Distance(DistanceSq(p, q), 1, 0)

\* std::numeric_limits<double>::max(): above every distance of the model
DblMax == [num |-> 1, den |-> 0, minus |-> 0]

\* std::min of two distances that subtract nothing: e when e < d
StdMin(d, e) == IF e.num * d.den < d.num * e.den THEN e ELSE d

\* DistanceVisitor::operator()(Line) and
\* PointToShapeDistanceVisitor::operator()(Line), which have one body:
\* clamping t to [0, 1] projects onto start when the dot product is at most 0
\* and onto end when it is at least the squared length.
DistanceToLine(point, line) ==
    LET line_vec == PointSub(line.end, line.start)
        point_vec == PointSub(point, line.start)
        line_length_sq == Dot(line_vec, line_vec)
        along == Dot(point_vec, line_vec)
        across == Cross(point_vec, line_vec)
    IN  IF line_length_sq = 0 THEN DistanceTo(point, line.start)
        ELSE IF along <= 0 THEN DistanceTo(point, line.start)
        ELSE IF along >= line_length_sq THEN DistanceTo(point, line.end)
        ELSE Distance(across * across, line_length_sq, 0)

\* The loop over the edges vertices[i], vertices[(i + 1) % size] from the
\* i-th edge on (i counts from 1).
RECURSIVE MinOverEdges(_, _, _, _)
MinOverEdges(point, vertices, i, min_distance) ==
    IF i > Len(vertices)
    THEN min_distance
    ELSE LET edge == Line(vertices[i], vertices[(i % Len(vertices)) + 1])
             d == DistanceToLine(point, edge)
         IN  MinOverEdges(point, vertices, i + 1,
                          StdMin(min_distance, d))

\* A polygon loop that measures to the edges between the vertices.
MinOverClosedPath(point, vertices, i, min_distance) ==
    MinOverEdges(point, vertices, i, min_distance)

\* The loop over polygon.Vertices() from the i-th vertex on.
RECURSIVE MinOverVertices(_, _, _, _)
MinOverVertices(point, vertices, i, min_distance) ==
    IF i > Len(vertices)
    THEN min_distance
    ELSE LET d == DistanceTo(point, vertices[i])
         IN  MinOverVertices(point, vertices, i + 1,
                             StdMin(min_distance, d))

\* Triangle::Vertices
TriangleVertices(t) == <<t.a, t.b, t.c>>

\* Rectangle::Vertices
RectangleVertices(r) ==
    << r.bottom_left,
       Point2D(r.bottom_left.x + r.width, r.bottom_left.y),
       Point2D(r.bottom_left.x + r.width, r.bottom_left.y + r.height),
       Point2D(r.bottom_left.x, r.bottom_left.y + r.height) >>

\* RegularPolygon::Vertices for sides = 4, where the angles are multiples of
\* a right angle and cos and sin are taken as exactly 0, 1 and -1.
RegularPolygonVertices(p) ==
    << Point2D(p.center_p.x + p.radius, p.center_p.y),
       Point2D(p.center_p.x, p.center_p.y + p.radius),
       Point2D(p.center_p.x - p.radius, p.center_p.y),
       Point2D(p.center_p.x, p.center_p.y - p.radius) >>

\* PointToShapeDistanceVisitor
PointToShapeDistanceVisitor(point, shape) ==
    CASE shape.kind = "Line" -> DistanceToLine(point, shape)
      [] shape.kind = "Triangle" -> MinOverEdges(point, TriangleVertices(shape), 1, DblMax)
      [] shape.kind = "Rectangle" -> MinOverEdges(point, RectangleVertices(shape), 1, DblMax)
      [] shape.kind = "RegularPolygon" ->
             MinOverEdges(point, RegularPolygonVertices(shape), 1, DblMax)
      [] shape.kind = "Circle" ->
             Distance(DistanceSq(point, shape.center_p), 1, shape.radius)
      [] shape.kind = "Polygon" -> MinOverVertices(point, shape.points_, 1, DblMax)

\* DistanceToPoint
DistanceToPoint(shape, point) == PointToShapeDistanceVisitor(point, shape)

\* PointInShapeVisitor::operator()(const Line &): on integer coordinates the
\* cross product is an integer, so |cross| > 1e-10 is cross # 0.
LineContains(point, line) ==
    LET line_vec == PointSub(line.end, line.start)
        point_vec == PointSub(point, line.start)
    IN /\ Cross(point_vec, line_vec) = 0
       /\ Dot(point_vec, line_vec) >= 0
       /\ Dot(point_vec, line_vec) <= Dot(line_vec, line_vec)

\* PointInShapeVisitor::point_in_polygon_ray_casting: the number of edges,
\* from edge i on, that the ray from p to the right crosses. The quotient
\* of the source is compared after multiplying by v2.y - v1.y, which is not
\* zero when the first test holds.
RECURSIVE RayCrossings(_, _, _)
RayCrossings(p, vertices, i) ==
    IF i > Len(vertices)
    THEN 0
    ELSE LET v1 == vertices[i]
             v2 == vertices[(i % Len(vertices)) + 1]
             left == (p.x - v1.x) * (v2.y - v1.y)
             right == (v2.x - v1.x) * (p.y - v1.y)
             crossed == /\ (v1.y > p.y) # (v2.y > p.y)
                        /\ IF v2.y > v1.y THEN left < right ELSE left > right
         IN (IF crossed THEN 1 ELSE 0) + RayCrossings(p, vertices, i + 1)

\* PointInShapeVisitor, as the set of the answers a call can give. The
\* visitor has an overload for five of the six alternatives of Shape and
\* none for Polygon, so a visit of a Shape with it has no answer for a
\* Polygon (std::visit needs every alternative and is ill-formed). The
\* vertices of a RegularPolygon are rounded by cos and sin, so a point on
\* the exact boundary falls on either side.
PointInShapeVisitor(point, shape) ==
    CASE shape.kind = "Line" -> {[kind |-> "bool", value |-> LineContains(point, shape)]}
      [] shape.kind = "Triangle" ->
             LET sign1 == Cross(PointSub(point, shape.a), PointSub(shape.b, shape.a))
                 sign2 == Cross(PointSub(point, shape.b), PointSub(shape.c, shape.b))
                 sign3 == Cross(PointSub(point, shape.c), PointSub(shape.a, shape.c))
                 has_neg == sign1 < 0 \/ sign2 < 0 \/ sign3 < 0
                 has_pos == sign1 > 0 \/ sign2 > 0 \/ sign3 > 0
             IN {[kind |-> "bool", value |-> ~(has_neg /\ has_pos)]}
      [] shape.kind = "Rectangle" ->
             {[kind |-> "bool",
               value |-> /\ point.x >= shape.bottom_left.x
                         /\ point.x <= shape.bottom_left.x + shape.width
                         /\ point.y >= shape.bottom_left.y
                         /\ point.y <= shape.bottom_left.y + shape.height]}
      [] shape.kind = "RegularPolygon" ->
             IF Abs(point.x - shape.center_p.x) + Abs(point.y - shape.center_p.y) = shape.radius
             THEN {[kind |-> "bool", value |-> b] : b \in BOOLEAN}
             ELSE {[kind |-> "bool",
                    value |-> RayCrossings(point, RegularPolygonVertices(shape), 1) % 2 = 1]}
      [] shape.kind = "Circle" ->
             {[kind |-> "bool",
               value |-> DistanceSq(point, shape.center_p) <= shape.radius * shape.radius]}
      [] shape.kind = "Polygon" -> {[kind |-> "no handler"]}

\* A visitor whose fallback answers 0 instead of nothing.
FallbackZero(shape1, shape2) == [kind |-> "distance", value |-> Distance(0, 1, 0)]

\* ShapeToShapeDistanceVisitor: the fallback template
Fallback(shape1, shape2) == Nullopt

\* ShapeToShapeDistanceVisitor::operator()(Circle, Circle)
CircleCircleDistance(c1, c2) ==
    [kind |-> "distance",
     value |-> Distance(DistanceSq(c1.center_p, c2.center_p), 1, c1.radius + c2.radius)]

\* ShapeToShapeDistanceVisitor::operator()(Line, Line)
LineLineDistance(l1, l2) ==
    [kind |-> "distance",
     value |-> StdMin(StdMin(StdMin(DistanceToLine(l1.start, l2), DistanceToLine(l1.end, l2)),
                             DistanceToLine(l2.start, l1)),
                      DistanceToLine(l2.end, l1))]

\* DistanceBetweenShapes
DistanceBetweenShapes(shape1, shape2) ==
    CASE shape1.kind = "Circle" /\ shape2.kind = "Circle" -> CircleCircleDistance(shape1, shape2)
      [] shape1.kind = "Line" /\ shape2.kind = "Line" -> LineLineDistance(shape1, shape2)
      [] OTHER -> Fallback(shape1, shape2)

\* ---- collections of shapes: indices count from 0, as in the code, so
\* that shapes[i] of the code is shapes[i + 1] here
\* A pair list that also pairs every shape with itself and with the
\* shapes before it.
AllPairsFromSelf(size, i, j) ==
    [k \in 1 .. size * size |-> <<(k - 1) \div size, (k - 1) % size>>]

\* all_pairs: the pairs (i, j), i < j < size, from (i, j) on in the order of
\* the joined views.
RECURSIVE AllPairs(_, _, _)
AllPairs(size, i, j) ==
    IF i >= size THEN <<>>
    ELSE IF j >= size THEN AllPairs(size, i + 1, i + 2)
    ELSE <<(<<i, j>>)>> \o AllPairs(size, i, j + 1)

\* std::ranges::for_each over all_pairs from its k-th pair on
RECURSIVE CollectCollisions(_, _, _, _)
CollectCollisions(shapes, pairs, k, collisions) ==
    IF k > Len(pairs)
    THEN collisions
    ELSE LET i == pairs[k][1]
             j == pairs[k][2]
         IN  CollectCollisions(shapes, pairs, k + 1,
                 IF BoundingBoxesOverlap(shapes[i + 1], shapes[j + 1])
                 THEN Append(collisions, <<shapes[i + 1], shapes[j + 1]>>)
                 ELSE collisions)

\* FindAllCollisions
FindAllCollisions(shapes) ==
    IF Len(shapes) < 2
    THEN <<>>
    ELSE CollectCollisions(shapes, AllPairs(Len(shapes), 0, 1), 1, <<>>)

\* A comparator under which the last of equal heights wins.
HeightNotAbove(shapes, i, j) == GetHeight(shapes[i + 1]) <= GetHeight(shapes[j + 1])

\* The comparator FindHighestShape hands to max_element
HeightLess(shapes, i, j) == GetHeight(shapes[i + 1]) < GetHeight(shapes[j + 1])

\* std::ranges::max_element over the indices from `first` on: the largest
\* so far is replaced only by an index it compares less than.
RECURSIVE MaxElement(_, _, _)
MaxElement(shapes, largest, first) ==
    IF first >= Len(shapes)
    THEN largest
    ELSE MaxElement(shapes, IF HeightLess(shapes, largest, first) THEN first ELSE largest,
                    first + 1)

\* FindHighestShape
FindHighestShape(shapes) ==
    IF Len(shapes) = 0
    THEN Nullopt
    ELSE [kind |-> "index", index |-> MaxElement(shapes, 0, 1)]

\* ---- the calls of the queries
\* The square of the polygon distance test.
Square == <<Point2D(0, 0), Point2D(2, 0), Point2D(2, 2), Point2D(0, 2)>>

\* The shapes of the lattice: sizes and radii are positive, as the shape
\* factory requires; regular polygons have 4 sides; arbitrary polygons are
\* those of one and of two vertices, and the square.
QUShapes ==
    LET grid == {Point2D(cx, cy) : cx \in Coords, cy \in Coords}
    IN  {Line(s, e) : s \in grid, e \in grid}
            \cup {Triangle(pa, pb, pc) : pa \in grid, pb \in grid, pc \in grid}
            \cup {Rectangle(bl, w, h) : bl \in grid, w \in 1 .. MaxRadius, h \in 1 .. MaxRadius}
            \cup {RegularPolygon(c, r, 4) : c \in grid, r \in 1 .. MaxRadius}
            \cup {Circle(c, r) : c \in grid, r \in 1 .. MaxRadius}
            \cup {Polygon(<<p>>) : p \in grid}
            \cup {Polygon(<<p, q>>) : p \in grid, q \in grid}
            \cup {Polygon(Square)}

\* The shapes the collections are made of: among them boxes that touch, boxes
\* apart, equal heights, and every kind.
QUSpanShapes ==
    { Line(Point2D(0, 0), Point2D(1, 1)),
      Line(Point2D(2, 0), Point2D(2, 2)),
      Triangle(Point2D(0, 0), Point2D(1, 0), Point2D(0, 1)),
      Rectangle(Point2D(1, 1), 1, 1),
      Rectangle(Point2D(2, 2), 1, 2),
      RegularPolygon(Point2D(4, 4), 1, 4),
      Circle(Point2D(4, 0), 1),
      Polygon(<<Point2D(0, 1), Point2D(1, 2)>>),
      Polygon(<<Point2D(3, 0), Point2D(4, 3)>>) }

\* ---- ParseShapes (shape_utils.cpp).  A string is a sequence of characters,
\* a character a string of length one.  A double read from the text is
\* counted in tenths: "2.5" is 25, "-1" is -10.

\* SplitIntoWords: the maximal runs of characters that are not spaces.
RECURSIVE SplitIntoWords(_)
SplitIntoWords(s) ==
    IF s = <<>> THEN <<>>
    ELSE IF Head(s) = " " THEN SplitIntoWords(Tail(s))
    ELSE LET end == CHOOSE n \in 1 .. Len(s) :
                        /\ \A i \in 1 .. n : s[i] # " "
                        /\ n = Len(s) \/ s[n + 1] = " "
         IN  <<SubSeq(s, 1, end)>> \o SplitIntoWords(SubSeq(s, end + 1, Len(s)))

\* ParseDouble: std::from_chars must succeed and consume the whole word.
\* The words of the inputs hold no exponent, no "inf" or "nan" and at most
\* one digit after the point: an optional '-', digits, an optional '.' and
\* digits, with a digit somewhere.
ParseDouble(s) ==
    LET digit == [c \in {"0", "1", "2", "3", "4", "5", "6", "7", "8", "9"} |->
                     CASE c = "0" -> 0 [] c = "1" -> 1 [] c = "2" -> 2 [] c = "3" -> 3
                       [] c = "4" -> 4 [] c = "5" -> 5 [] c = "6" -> 6 [] c = "7" -> 7
                       [] c = "8" -> 8 [] c = "9" -> 9]
        negative == s # <<>> /\ Head(s) = "-"
        body == IF negative THEN Tail(s) ELSE s
        points == {i \in 1 .. Len(body) : body[i] = "."}
        whole == IF points = {} THEN body
                 ELSE SubSeq(body, 1, (CHOOSE i \in points : TRUE) - 1)
        fraction == IF points = {} THEN <<>>
                    ELSE SubSeq(body, (CHOOSE i \in points : TRUE) + 1, Len(body))
        RECURSIVE Value(_, _)
        Value(digits, acc) ==
            IF digits = <<>> THEN acc ELSE Value(Tail(digits), 10 * acc + digit[Head(digits)])
    IN  IF /\ Cardinality(points) <= 1
           /\ \A i \in 1 .. Len(body) : body[i] \in DOMAIN digit \cup {"."}
           /\ Len(whole) + Len(fraction) >= 1
           /\ Len(fraction) <= 1
        THEN [kind |-> "double",
              value |-> (IF negative THEN -1 ELSE 1)
                            * (10 * Value(whole, 0) + Value(fraction, 0))]
        ELSE Nullopt

\* ParseDoubles: the words of s as doubles, or nothing if s is empty, has no
\* word, or has a word that is no double.
ParseDoubles(s) ==
    LET tokens == SplitIntoWords(s)
    IN  IF s = <<>> \/ tokens = <<>> \/ \E k \in 1 .. Len(tokens) : ParseDouble(tokens[k]) = Nullopt
        THEN Nullopt
        ELSE [kind |-> "doubles", v |-> [k \in 1 .. Len(tokens) |-> ParseDouble(tokens[k]).value]]

\* A test of a size that lets 0 through.
RequireNotNegative(x) == x >= 0

\* RequirePositive
RequirePositive(x) == x > 0

\* RequireIntegerAtLeast: static_cast<int> drops the fraction; the doubles of
\* the inputs are far inside the range of int.
RequireIntegerAtLeast(d, min_value) ==
    LET i == IF d >= 0 THEN d \div 10 ELSE -((-d) \div 10)
    IN  IF 10 * i = d /\ i >= min_value THEN [kind |-> "int", value |-> i] ELSE Nullopt

\* MakeCircle
MakeCircle(v) ==
    IF Len(v) = 3 /\ RequirePositive(v[3])
    THEN [kind |-> "shape", shape |-> Circle(Point2D(v[1], v[2]), v[3])]
    ELSE Nullopt

\* MakeLine
MakeLine(v) ==
    IF Len(v) = 4
    THEN [kind |-> "shape", shape |-> Line(Point2D(v[1], v[2]), Point2D(v[3], v[4]))]
    ELSE Nullopt

\* MakeTriangle
MakeTriangle(v) ==
    IF Len(v) = 6
    THEN [kind |-> "shape",
          shape |-> Triangle(Point2D(v[1], v[2]), Point2D(v[3], v[4]), Point2D(v[5], v[6]))]
    ELSE Nullopt

\* MakeRectangle
MakeRectangle(v) ==
    IF Len(v) = 4 /\ RequirePositive(v[3]) /\ RequirePositive(v[4])
    THEN [kind |-> "shape", shape |-> Rectangle(Point2D(v[1], v[2]), v[3], v[4])]
    ELSE Nullopt

\* MakePolygon: a regular polygon.
MakePolygon(v) ==
    IF Len(v) = 4 /\ RequirePositive(v[3]) /\ RequireIntegerAtLeast(v[4], 3) # Nullopt
    THEN [kind |-> "shape",
          shape |-> RegularPolygon(Point2D(v[1], v[2]), v[3], RequireIntegerAtLeast(v[4], 3).value)]
    ELSE Nullopt

\* ParseSingleShape: the first word names the maker, the other words, joined
\* by single spaces, are its parameters.
ParseSingleShape(token) ==
    LET parts == SplitIntoWords(token)
        type == parts[1]
        RECURSIVE Joined(_)
        Joined(i) ==
            IF i > Len(parts) THEN <<>>
            ELSE (IF i > 2 THEN <<" ">> ELSE <<>>) \o parts[i] \o Joined(i + 1)
        param_str == Joined(2)
        params == ParseDoubles(param_str)
    IN  IF parts = <<>> THEN Nullopt
        ELSE IF type \notin {<<"c", "i", "r", "c", "l", "e">>, <<"l", "i", "n", "e">>,
                             <<"t", "r", "i", "a", "n", "g", "l", "e">>,
                             <<"r", "e", "c", "t", "a", "n", "g", "l", "e">>,
                             <<"p", "o", "l", "y", "g", "o", "n">>}
        THEN Nullopt
        ELSE IF params = Nullopt THEN Nullopt
        ELSE CASE type = <<"c", "i", "r", "c", "l", "e">> -> MakeCircle(params.v)
               [] type = <<"l", "i", "n", "e">> -> MakeLine(params.v)
               [] type = <<"t", "r", "i", "a", "n", "g", "l", "e">> -> MakeTriangle(params.v)
               [] type = <<"r", "e", "c", "t", "a", "n", "g", "l", "e">> -> MakeRectangle(params.v)
               [] type = <<"p", "o", "l", "y", "g", "o", "n">> -> MakePolygon(params.v)

\* A loop that gives up at the first entry it cannot read.
RECURSIVE ParseUntilInvalid(_, _, _)
ParseUntilInvalid(input, start, result) ==
    IF start > Len(input) THEN result
    ELSE LET ends == {i \in start .. Len(input) : input[i] = ";"}
             end == IF ends = {} THEN Len(input) + 1 ELSE SetMin(ends)
             token == SubSeq(input, start, end - 1)
         IN  IF \A i \in 1 .. Len(token) : token[i] = " "
             THEN ParseUntilInvalid(input, end + 1, result)
             ELSE IF ParseSingleShape(token) = Nullopt THEN result
             ELSE ParseUntilInvalid(input, end + 1, Append(result, ParseSingleShape(token).shape))

\* The loop of ParseShapes from the position start on: the token up to the
\* next ';' (or the end), without the spaces at its two ends; a token that is
\* not empty and reads as a shape adds it to the result.
RECURSIVE ParseShapesFrom(_, _, _)
ParseShapesFrom(input, start, result) ==
    IF start > Len(input) THEN result
    ELSE LET ends == {i \in start .. Len(input) : input[i] = ";"}
             end == IF ends = {} THEN Len(input) + 1 ELSE SetMin(ends)
             whole == SubSeq(input, start, end - 1)
             inked == {i \in 1 .. Len(whole) : whole[i] # " "}
             token == IF inked = {} THEN <<>> ELSE SubSeq(whole, SetMin(inked), SetMax(inked))
             shape_opt == ParseSingleShape(token)
         IN  IF token # <<>> /\ shape_opt # Nullopt
             THEN ParseShapesFrom(input, end + 1, Append(result, shape_opt.shape))
             ELSE ParseShapesFrom(input, end + 1, result)

\* ParseShapes
ParseShapes(input) == ParseShapesFrom(input, 1, <<>>)

\* The most entries of an input that holds several.
MaxEntries == 3

\* The strings handed to ParseShapes.  One entry alone: a kind name, known
\* or not, with 0 to 6 parameters that are all "1" but for at most one, which
\* is "0", "-1", "2.5", "3" or the word "x".  Several entries between ';':
\* the entries of the tests, valid and invalid, an empty one and one with
\* spaces at both ends and between its words.
PSInputs ==
    LET circle == <<"c", "i", "r", "c", "l", "e">>
        line == <<"l", "i", "n", "e">>
        triangle == <<"t", "r", "i", "a", "n", "g", "l", "e">>
        rectangle == <<"r", "e", "c", "t", "a", "n", "g", "l", "e">>
        polygon == <<"p", "o", "l", "y", "g", "o", "n">>
        blob == <<"b", "l", "o", "b">>
        w0 == <<"0">>
        w1 == <<"1">>
        w2 == <<"2">>
        odd == {w0, <<"-", "1">>, <<"2", ".", "5">>, <<"3">>, <<"x">>}
        lists == UNION {{[i \in 1 .. n |-> IF i = k THEN t ELSE w1] : k \in 0 .. n, t \in odd} :
                           n \in 0 .. 6}
        RECURSIVE Text(_, _)
        Text(words, gap) ==
            IF words = <<>> THEN <<>>
            ELSE Head(words) \o (IF Len(words) > 1 THEN gap ELSE <<>>) \o Text(Tail(words), gap)
        alone == {Text(<<kind>> \o list, <<" ">>) :
                      kind \in {circle, line, triangle, rectangle, polygon, blob}, list \in lists}
        several == { Text(<<circle, w0, w0, w1>>, <<" ">>),
                     Text(<<circle, w0, w0, <<"-", "1">>>>, <<" ">>),
                     Text(<<line, w0, w0, w1, w1>>, <<" ">>),
                     Text(<<polygon, w0, w0, w1, w2>>, <<" ">>),
                     Text(<<rectangle, w0, w0, w2, w2>>, <<" ">>),
                     Text(<<blob, w1>>, <<" ">>),
                     <<>>,
                     <<" ", " ">> \o Text(<<circle, w1, w1, <<"2", ".", "5">>>>, <<" ", " ", " ">>)
                         \o <<" ">> }
    IN  alone \cup UNION {{Text(entries, <<";">>) : entries \in [1 .. n -> several]} :
                             n \in 0 .. MaxEntries}

\* The longest collection of shapes handed to a query.
MaxShapes == 3

QUIdle ==
    /\ quOp = "none"
    /\ quShapes = <<>>
    /\ quPoint = [kind |-> "none"]
    /\ quBoxes = <<>>
    /\ quOutcome = [kind |-> "none"]

\* A caller about to make one call.
QUInit ==
    /\ quOp = "ready"
    /\ quShapes = <<>>
    /\ quPoint = [kind |-> "none"]
    /\ quBoxes = <<>>
    /\ quOutcome = [kind |-> "none"]

QUCall(op, shapes, point, boxes, outcome) ==
    /\ quOp' = op
    /\ quShapes' = shapes
    /\ quPoint' = point
    /\ quBoxes' = boxes
    /\ quOutcome' = outcome
    /\ UNCHANGED <<dtVars, ghVars, ixVars>>

\* Boxes of any four coordinates, min above max included.
QUOverlaps ==
    /\ quOp = "ready"
    /\ \E a \in [min_x : Coords, min_y : Coords, max_x : Coords, max_y : Coords],
          b \in [min_x : Coords, min_y : Coords, max_x : Coords, max_y : Coords] :
           QUCall("Overlaps", <<>>, [kind |-> "none"], <<a, b>>,
                  [kind |-> "bool", value |-> Overlaps(a, b)])

QUGetBoundBox ==
    /\ quOp = "ready"
    /\ \E shape \in QUShapes :
           QUCall("GetBoundBox", <<shape>>, [kind |-> "none"], <<>>,
                  [kind |-> "box", box |-> GetBoundBox(shape)])

QUGetHeight ==
    /\ quOp = "ready"
    /\ \E shape \in QUShapes :
           QUCall("GetHeight", <<shape>>, [kind |-> "none"], <<>>,
                  [kind |-> "height", value |-> GetHeight(shape)])

\* A shape against itself and against the shapes of the collections.
QUBoundingBoxesOverlap ==
    /\ quOp = "ready"
    /\ \E shape1 \in QUShapes :
           \E shape2 \in QUSpanShapes \cup {shape1} :
               QUCall("BoundingBoxesOverlap", <<shape1, shape2>>, [kind |-> "none"], <<>>,
                      [kind |-> "bool", value |-> BoundingBoxesOverlap(shape1, shape2)])

\* The point may lie outside the square the shapes live in.
QUDistanceToPoint ==
    /\ quOp = "ready"
    /\ \E shape \in QUShapes, px \in 0 .. MaxCoord + 1, py \in 0 .. MaxCoord + 1 :
           QUCall("DistanceToPoint", <<shape>>, Point2D(px, py), <<>>,
                  [kind |-> "distance", value |-> DistanceToPoint(shape, Point2D(px, py))])

\* A visit of one shape with PointInShapeVisitor.
QUPointInShape ==
    /\ quOp = "ready"
    /\ \E shape \in QUShapes, px \in 0 .. MaxCoord + 1, py \in 0 .. MaxCoord + 1 :
           \E outcome \in PointInShapeVisitor(Point2D(px, py), shape) :
               QUCall("PointInShape", <<shape>>, Point2D(px, py), <<>>, outcome)

QUDistanceBetweenShapes ==
    /\ quOp = "ready"
    /\ \E shape1 \in IXShapes, shape2 \in IXShapes :
           QUCall("DistanceBetweenShapes", <<shape1, shape2>>, [kind |-> "none"], <<>>,
                  DistanceBetweenShapes(shape1, shape2))

QUFindAllCollisions ==
    /\ quOp = "ready"
    /\ \E shapes \in UNION {[1 .. n -> QUSpanShapes] : n \in 0 .. MaxShapes} :
           QUCall("FindAllCollisions", shapes, [kind |-> "none"], <<>>,
                  [kind |-> "collisions", pairs |-> FindAllCollisions(shapes)])

QUFindHighestShape ==
    /\ quOp = "ready"
    /\ \E shapes \in UNION {[1 .. n -> QUSpanShapes] : n \in 0 .. MaxShapes} :
           QUCall("FindHighestShape", shapes, [kind |-> "none"], <<>>, FindHighestShape(shapes))

\* A call of ParseShapes; the string is kept with the shapes returned.
QUParseShapes ==
    /\ quOp = "ready"
    /\ \E input \in PSInputs :
           QUCall("ParseShapes", <<>>, [kind |-> "none"], <<>>,
                  [kind |-> "shapes", input |-> input, shapes |-> ParseShapes(input)])

QUNext ==
    \/ QUOverlaps
    \/ QUGetBoundBox
    \/ QUGetHeight
    \/ QUBoundingBoxesOverlap
    \/ QUDistanceToPoint
    \/ QUPointInShape
    \/ QUDistanceBetweenShapes
    \/ QUFindAllCollisions
    \/ QUFindHighestShape
    \/ QUParseShapes

\* ============================================================ specifications
InitDelaunay == DTInit /\ GHIdle /\ IXIdle /\ QUIdle

InitGraham == GHInit /\ DTIdle /\ IXIdle /\ QUIdle

InitIntersect == IXInit /\ DTIdle /\ GHIdle /\ QUIdle

SpecDelaunay == InitDelaunay /\ [][DTNext]_vars

SpecGraham == InitGraham /\ [][GHNext]_vars

SpecIntersect == InitIntersect /\ [][IXNext]_vars

InitQueries == QUInit /\ DTIdle /\ GHIdle /\ IXIdle

SpecQueries == InitQueries /\ [][QUNext]_vars

\* ==================================================================== claims
\* ---- helpers of the claims: geometry stated without the code's algorithms
Range(seq) == {seq[k] : k \in 1 .. Len(seq)}

Orient(a, b, c) == Cross(PointSub(b, a), PointSub(c, a))

AllCollinear(S) == \A a \in S, b \in S, c \in S : Orient(a, b, c) = 0

\* p lies strictly inside the circle through a, b, c (the in-circle determinant).
InCircumcircle(a, b, c, p) ==
    LET ea == PointSub(a, p)
        eb == PointSub(b, p)
        ec == PointSub(c, p)
        det == Dot(ea, ea) * Cross(eb, ec) - Dot(eb, eb) * Cross(ea, ec)
               + Dot(ec, ec) * Cross(ea, eb)
    IN  Orient(a, b, c) * det > 0

\* p is on the boundary of the convex hull of S or outside it: some line
\* through p and another point of S has all of S on one side.
OnHullBoundary(p, S) ==
    \E q \in S \ {p} :
        \/ \A v \in S : Orient(p, q, v) >= 0
        \/ \A v \in S : Orient(p, q, v) <= 0

StrictlyInsideHull(p, S) == ~OnHullBoundary(p, S)

\* p lies strictly between two other points of S.
BetweenTwo(p, S) ==
    \E a \in S \ {p}, b \in S \ {p} :
        Orient(a, p, b) = 0 /\ Dot(PointSub(a, p), PointSub(b, p)) < 0

\* p is a corner (extreme point) of the convex hull of S.
HullCorner(p, S) == OnHullBoundary(p, S) /\ ~BetweenTwo(p, S)

\* q = m * m * f with f square-free (f = 1 for a perfect square, 0 for 0).
RootSquare(q) == SetMax({m \in 0 .. q : m * m <= q /\ (m = 0 \/ q % (m * m) = 0)})

RootFree(q) == IF q = 0 THEN 0 ELSE q \div (RootSquare(q) * RootSquare(q))

\* (n + s * sqrt(q)) / den  as  (rat + irr * sqrt(free)) / den
Surd(n, s, q, den) ==
    IF RootFree(q) <= 1
    THEN [rat |-> n + s * RootSquare(q) * RootFree(q), irr |-> 0, free |-> 1, den |-> den]
    ELSE IF s = 0
    THEN [rat |-> n, irr |-> 0, free |-> 1, den |-> den]
    ELSE [rat |-> n, irr |-> s * RootSquare(q), free |-> RootFree(q), den |-> den]

SameNumber(u, v) ==
    /\ u.rat * v.den = v.rat * u.den
    /\ u.irr * v.den = v.irr * u.den
    /\ (u.irr # 0 => u.free = v.free)

\* Two returned points are the same point (with steps of 1 two answers differ
\* by less than 1e-9 in each coordinate only if they are equal).
SamePoint(p, r) ==
    /\ SameNumber(Surd(p.nx, p.sx, p.q, p.den), Surd(r.nx, r.sx, r.q, r.den))
    /\ SameNumber(Surd(p.ny, p.sy, p.q, p.den), Surd(r.ny, r.sy, r.q, r.den))

\* The returned point p lies on the circle c:  |p - c|^2 = radius^2.
OnCircle(p, c) ==
    LET u == p.nx - p.den * c.center_p.x
        v == p.ny - p.den * c.center_p.y
        rat == u * u + v * v + (p.sx * p.sx + p.sy * p.sy) * p.q
        irr == 2 * (u * p.sx + v * p.sy)
    IN  SameNumber(Surd(rat, irr, p.q, 1), Surd(c.radius * c.radius * p.den * p.den, 0, 0, 1))

SameAnswer(o1, o2) ==
    \/ o1.kind = "nullopt" /\ o2.kind = "nullopt"
    \/ o1.kind = "point" /\ o2.kind = "point" /\ SamePoint(o1.point, o2.point)

Supported == {"Line", "Circle"}

IXReturned == ixPc \in {"swap", "done"}

\* ---- C1: DelaunayTriangulation with fewer than 3 points reports the failure
\* as a returned error value carrying the message, and does not throw.
C1_TooFewIsErrorValue ==
    (dtPc = "done" /\ Len(dtPoints) < 3) =>
        (dtOutcome.kind = "unexpected" /\ dtOutcome.error = TriangulationError)

\* ---- C2: GrahamScan with fewer than 3 points returns the error result with
\* the exact message, never throws, and leaves the caller's buffer unmodified.
C2_TooFewIsErrorResult ==
    Len(ghInput) < 3 =>
        /\ ghPoints = ghInput
        /\ ghPc # "call" =>
              /\ ghPc = "done"
              /\ ghOutcome.kind = "unexpected"
              /\ ghOutcome.error = ConvexHullError

C2_Witness ==
    /\ ghPc = "done"
    /\ Len(ghInput) = 2
    /\ ghInput[1] # ghInput[2]
    /\ ghOutcome.kind = "unexpected"

\* ---- C3: GetIntersectPoint gives the same answer for (A, B) and (B, A) on
\* every supported pair: both absent, or both the same point within 1e-9.
\* Stated for steps of 1, where two different answers are much further apart
\* than 1e-9.
C3_Commutative ==
    ( /\ ixPc = "done"
      /\ ixUnit = 0
      /\ ixFirst.kind \in Supported
      /\ ixSecond.kind \in Supported ) =>
        SameAnswer(ixPrev, ixOutcome)

\* ---- C4: GetIntersectPoint raises the logic error exactly on the pairs with
\* a kind outside {segment, circle}; on the other 4 pairs it answers with a
\* point or with "no intersection".
C4_ThrowsIffUnsupported ==
    IXReturned =>
        /\ ixOutcome.kind \in {"throw", "point", "nullopt"}
        /\ ixOutcome.kind = "throw" <=>
              (ixFirst.kind \notin Supported \/ ixSecond.kind \notin Supported)
        /\ ixOutcome.kind = "throw" => ixOutcome.type = "logic_error"

C4_Witness ==
    /\ ixPc = "done"
    /\ ixFirst.kind = "Triangle"
    /\ ixSecond.kind = "Circle"
    /\ ixOutcome.kind = "throw"
    /\ ixPrev.kind = "throw"

\* ---- C5: no input point that is not a vertex of a returned triangle lies
\* strictly inside the circumcircle of that triangle.
C5_EmptyCircumcircle ==
    (dtPc = "done" /\ dtOutcome.kind = "value") =>
        \A t \in Range(dtOutcome.triangles), p \in Range(dtPoints) :
            p \notin {t.a, t.b, t.c} => ~InCircumcircle(t.a, t.b, t.c, p)

\* ---- C6: the four corners of the unit square, in the order (0,0), (1,0),
\* (0,1), (1,1), give exactly 2 triangles whose vertices are those corners.
UnitSquare ==
    <<Half(Point2D(0, 0)), Half(Point2D(1, 0)), Half(Point2D(0, 1)), Half(Point2D(1, 1))>>

C6_UnitSquareTwoTriangles ==
    (dtPc = "done" /\ dtUnit = 1 /\ dtPoints = UnitSquare) =>
        /\ dtOutcome.kind = "value"
        /\ Len(dtOutcome.triangles) = 2
        /\ UNION {{t.a, t.b, t.c} : t \in Range(dtOutcome.triangles)} = Range(UnitSquare)

C6_Witness ==
    /\ dtPc = "done"
    /\ dtUnit = 1
    /\ dtPoints = UnitSquare
    /\ Len(dtOutcome.triangles) = 2

\* ---- C7: for at least 3 points, not all collinear, the result of GrahamScan
\* consists of input points, contains every corner of the hull, contains no
\* point strictly inside the hull, and has at least 3 elements; the unit
\* square with its centre gives exactly the 4 corners.
C7_HullOfInput ==
    (ghPc = "done" /\ Len(ghInput) >= 3 /\ ~AllCollinear(Range(ghInput))) =>
        /\ ghOutcome.kind = "value"
        /\ Range(ghOutcome.hull) \subseteq Range(ghInput)
        /\ \A p \in Range(ghInput) :
              /\ HullCorner(p, Range(ghInput)) => p \in Range(ghOutcome.hull)
              /\ StrictlyInsideHull(p, Range(ghInput)) => p \notin Range(ghOutcome.hull)
        /\ Len(ghOutcome.hull) >= 3
        /\ (ghUnit = 1 /\ ghInput = SquareWithCentre) =>
              /\ Len(ghOutcome.hull) = 4
              /\ Range(ghOutcome.hull) = Range(SquareWithCentre) \ {Point2D(1, 1)}

\* ---- C8: the result of GrahamScan never contains three consecutive
\* collinear points and contains only corners of the hull (stated here for
\* inputs of distinct lattice points with steps of 1 that are not all
\* collinear).
C8_OnlyCorners ==
    ( /\ ghPc = "done"
      /\ ghUnit = 0
      /\ Len(ghInput) >= 3
      /\ Cardinality(Range(ghInput)) = Len(ghInput)
      /\ ~AllCollinear(Range(ghInput)) ) =>
        /\ \A k \in 1 .. Len(ghOutcome.hull) - 2 :
              Orient(ghOutcome.hull[k], ghOutcome.hull[k + 1], ghOutcome.hull[k + 2]) # 0
        /\ \A p \in Range(ghOutcome.hull) : HullCorner(p, Range(ghInput))

\* ---- C9: for two segments with parallel direction vectors GetIntersectPoint
\* is absent, also when they are collinear and overlap or share an endpoint.
C9_ParallelIsAbsent ==
    ( /\ IXReturned
      /\ ixFirst.kind = "Line"
      /\ ixSecond.kind = "Line"
      /\ Cross(PointSub(ixFirst.end, ixFirst.start), PointSub(ixSecond.end, ixSecond.start)) = 0 )
    => ixOutcome = Nullopt

C9_Witness ==
    /\ ixPc = "done"
    /\ ixFirst = Line(Point2D(0, 0), Point2D(2, 0))
    /\ ixSecond = Line(Point2D(1, 0), Point2D(2, 0))
    /\ ixOutcome = Nullopt
    /\ ixPrev = Nullopt

\* ---- C10: two circles whose centres are less than 1e-9 apart, whose
\* centre distance exceeds r1 + r2 + 1e-9, or of which one lies inside the
\* other by more than 1e-9 (centre distance + smaller radius < larger radius
\* - 1e-9) have no intersection; externally or internally tangent circles
\* whose centres are at least 1e-9 apart return their single touching point.
C10_CircleCircleWithinEPS ==
    (IXReturned /\ ixFirst.kind = "Circle" /\ ixSecond.kind = "Circle") =>
        LET dd == DistanceSq(ixFirst.center_p, ixSecond.center_p)
            rsum == ixFirst.radius + ixSecond.radius
            rdiff == Abs(ixFirst.radius - ixSecond.radius)
            close == RootBelow(dd, 0, 1, ixUnit)
        IN  /\ close => ixOutcome = Nullopt
            /\ RootAbove(dd, rsum, ixUnit) => ixOutcome = Nullopt
            /\ RootBelow(dd, rdiff, -1, ixUnit) => ixOutcome = Nullopt
            /\ (~close /\ (dd = rsum * rsum \/ dd = rdiff * rdiff)) =>
                  /\ ixOutcome.kind = "point"
                  /\ OnCircle(ixOutcome.point, ixFirst)
                  /\ OnCircle(ixOutcome.point, ixSecond)

\* Tangent circles on the fine lattice, answered with the touching point.
C10_Witness ==
    /\ ixPc = "done"
    /\ ixUnit = 30
    /\ ixFirst = Circle(Point2D(0, 0), 1)
    /\ ixSecond = Circle(Point2D(2, 0), 1)
    /\ ixOutcome.kind = "point"
    /\ SamePoint(ixOutcome.point, ExactPoint(1, 0, 0, 0, 0, 1))

\* C10 without the tolerance: coinciding centres, a centre distance above
\* r1 + r2 and strict containment have no intersection; tangent circles return
\* the touching point.
C10_CircleCircleCases ==
    (IXReturned /\ ixFirst.kind = "Circle" /\ ixSecond.kind = "Circle") =>
        LET dd == DistanceSq(ixFirst.center_p, ixSecond.center_p)
            rsum == ixFirst.radius + ixSecond.radius
            rdiff == Abs(ixFirst.radius - ixSecond.radius)
        IN  /\ dd = 0 => ixOutcome = Nullopt
            /\ dd > rsum * rsum => ixOutcome = Nullopt
            /\ dd < rdiff * rdiff => ixOutcome = Nullopt
            /\ (dd > 0 /\ (dd = rsum * rsum \/ dd = rdiff * rdiff)) =>
                  /\ ixOutcome.kind = "point"
                  /\ OnCircle(ixOutcome.point, ixFirst)
                  /\ OnCircle(ixOutcome.point, ixSecond)

\* ---- C11: DistanceBetweenShapes returns a value exactly when both shapes
\* are circles or both are segments; for every other ordered pair of kinds it
\* returns no value: not the value 0, and nothing else (no exception).
C11_ValueIffCirclesOrLines ==
    quOp = "DistanceBetweenShapes" =>
        LET kinds == <<quShapes[1].kind, quShapes[2].kind>>
        IN  IF kinds \in {<<"Circle", "Circle">>, <<"Line", "Line">>}
            THEN quOutcome.kind = "distance"
            ELSE quOutcome = Nullopt

C11_Witness ==
    /\ quOp = "DistanceBetweenShapes"
    /\ quShapes[1].kind = "Line"
    /\ quShapes[2].kind = "Circle"
    /\ quOutcome = Nullopt


\* The largest y among the points a shape is made of.
TopY(shape) ==
    CASE shape.kind = "Line" -> SetMax({shape.start.y, shape.end.y})
      [] shape.kind = "Triangle" -> SetMax({shape.a.y, shape.b.y, shape.c.y})
      [] shape.kind = "Rectangle" -> shape.bottom_left.y + shape.height
      [] shape.kind = "RegularPolygon" -> shape.center_p.y + shape.radius
      [] shape.kind = "Circle" -> shape.center_p.y + shape.radius
      [] shape.kind = "Polygon" -> SetMax({p.y : p \in Range(shape.points_)})

\* ---- C12: for a shape of any of the six kinds GetHeight returns the
\* largest y of the shape, which is max_y of its bounding box.
C12_HeightIsMaxY ==
    quOp = "GetHeight" =>
        /\ quOutcome.value = TopY(quShapes[1])
        /\ quOutcome.value = GetBoundBox(quShapes[1]).max_y

\* The same for the five kinds other than the arbitrary polygon.
C12_HeightIsMaxYButPolygon ==
    (quOp = "GetHeight" /\ quShapes[1].kind # "Polygon") =>
        /\ quOutcome.value = TopY(quShapes[1])
        /\ quOutcome.value = GetBoundBox(quShapes[1]).max_y


\* ---- C13: the bounding box of a shape overlaps itself:
\* BoundingBoxesOverlap(s, s) is true for a shape s of any kind.
C13_SelfOverlap ==
    (quOp = "BoundingBoxesOverlap" /\ quShapes[1] = quShapes[2]) => quOutcome.value = TRUE

\* A shape whose box has no width: a vertical segment against itself.
C13_Witness ==
    /\ quOp = "BoundingBoxesOverlap"
    /\ quShapes[1] = quShapes[2]
    /\ quShapes[1].kind = "Line"
    /\ quShapes[1].start.x = quShapes[1].end.x
    /\ quOutcome.value = TRUE

\* ---- C14: BoundingBox::Overlaps is symmetric for boxes of any four
\* coordinates each: a.Overlaps(b) = b.Overlaps(a).
C14_OverlapsSymmetric ==
    quOp = "Overlaps" => quOutcome.value = Overlaps(quBoxes[2], quBoxes[1])

\* A box with min above max overlapping a box with min below max.
C14_Witness ==
    /\ quOp = "Overlaps"
    /\ quBoxes[1].min_x > quBoxes[1].max_x
    /\ quBoxes[2].min_x <= quBoxes[2].max_x
    /\ quOutcome.value = TRUE


\* The steps a call has yet to take: the size test, one per point left, the
\* last erase_if.
StepsLeft ==
    CASE dtPc = "call" -> Len(dtPoints) + 2
      [] dtPc = "insert" -> Len(dtPoints) - dtI + 1
      [] OTHER -> 0

\* The guards of DTSeed, DTInsert and DTFinish: a call past its size test
\* seeds the triangulation, inserts the next point or finishes.
CanStep ==
    \/ dtPc = "call" /\ Len(dtPoints) >= 3
    \/ dtPc = "insert" /\ dtI < Len(dtPoints)
    \/ dtPc = "insert" /\ dtI = Len(dtPoints)

\* ---- C15: every call of DelaunayTriangulation with at least 3 points comes
\* to its end and returns a list of triangles (which may be empty), without
\* raising: collinear points, duplicate points and points that are all the
\* same included. A call that has not ended can take a step, every step
\* leaves fewer steps to take, and the call ends with a list.
C15_ReturnsAList ==
    /\ []((Len(dtPoints) >= 3 /\ dtPc # "done") => CanStep)
    /\ [][StepsLeft' < StepsLeft]_vars
    /\ []((Len(dtPoints) >= 3 /\ dtPc = "done") => dtOutcome.kind = "value")

\* A call with points that are all the same has returned.
C15_Witness ==
    /\ Len(dtPoints) >= 3
    /\ \A k \in 1 .. Len(dtPoints) : dtPoints[k] = dtPoints[1]
    /\ dtPc = "done"
    /\ dtOutcome.kind = "value"


\* ---- C16: no vertex of a returned triangle is one of the three vertices of
\* the super-triangle, and every vertex of a returned triangle is one of the
\* input points.
C16_OnlyInputVertices ==
    (dtPc = "done" /\ dtOutcome.kind = "value") =>
        \A t \in Range(dtOutcome.triangles) :
            \A v \in {t.a, t.b, t.c} :
                /\ v \notin Range(dtSuper)
                /\ v \in Range(dtPoints)

\* A call on the fine lattice that returned triangles.
C16_Witness ==
    /\ dtPc = "done"
    /\ dtOutcome.kind = "value"
    /\ dtUnit = 21
    /\ Len(dtOutcome.triangles) >= 2


\* The number of places of seq that hold e.
Count(seq, e) == Cardinality({k \in 1 .. Len(seq) : seq[k] = e})

\* seq holds the elements of other, each as many times, in some order.
PermutationOf(seq, other) ==
    /\ Len(seq) = Len(other)
    /\ \A e \in Range(seq) \cup Range(other) : Count(seq, e) = Count(other, e)

\* The buffer starts with a lowest point, the leftmost of the lowest.
PivotFirst(points) ==
    \A k \in 1 .. Len(points) :
        \/ points[1].y < points[k].y
        \/ points[1].y = points[k].y /\ points[1].x <= points[k].x

\* Around points[1] no later element has a smaller polar angle than an
\* earlier one, and of two elements at the same angle the later is no nearer.
\* No element lies below points[1] or level with it on its left, so the angle
\* from points[1] to b is the larger one exactly when a, b turn left.
AngularOrder(points) ==
    \A i \in 2 .. Len(points) : \A j \in i + 1 .. Len(points) :
        LET turn == Orient(points[1], points[i], points[j])
        IN  \/ turn > 0
            \/ turn = 0 /\ DistanceSq(points[1], points[i]) <= DistanceSq(points[1], points[j])

\* ---- C17: a successful GrahamScan leaves in the caller's buffer a
\* permutation of what it held, with the lowest (then leftmost) point first
\* and the others in non-decreasing polar angle around it, equal angles by
\* increasing distance.
C17_BufferReordered ==
    (ghPc = "done" /\ ghOutcome.kind = "value") =>
        /\ PermutationOf(ghPoints, ghInput)
        /\ PivotFirst(ghPoints)
        /\ AngularOrder(ghPoints)

\* The same with the angular order asked of steps of 1 only.
C17_BufferReorderedCoarse ==
    (ghPc = "done" /\ ghOutcome.kind = "value") =>
        /\ PermutationOf(ghPoints, ghInput)
        /\ PivotFirst(ghPoints)
        /\ ghUnit \in {0, 1} => AngularOrder(ghPoints)


\* The shape at index i of a span, counting from 0.
At(shapes, i) == shapes[i + 1]

\* ---- C18: FindHighestShape returns no value for an empty sequence, and
\* otherwise the smallest index whose shape has the largest GetHeight of all.
C18_FirstHighest ==
    quOp = "FindHighestShape" =>
        IF Len(quShapes) = 0
        THEN quOutcome = Nullopt
        ELSE /\ quOutcome.kind = "index"
             /\ quOutcome.index \in 0 .. Len(quShapes) - 1
             /\ \A j \in 0 .. Len(quShapes) - 1 :
                   /\ GetHeight(At(quShapes, j)) <= GetHeight(At(quShapes, quOutcome.index))
                   /\ j < quOutcome.index =>
                         GetHeight(At(quShapes, j)) < GetHeight(At(quShapes, quOutcome.index))

\* The highest shape occurs twice, and not in the first place.
C18_Witness ==
    /\ quOp = "FindHighestShape"
    /\ Len(quShapes) = 3
    /\ quOutcome.kind = "index"
    /\ quOutcome.index = 1
    /\ GetHeight(At(quShapes, 2)) = GetHeight(At(quShapes, 1))
    /\ At(quShapes, 2) # At(quShapes, 1)

C18_EmptyWitness ==
    /\ quOp = "FindHighestShape"
    /\ Len(quShapes) = 0
    /\ quOutcome = Nullopt


\* The index pairs (i, j), i < j, of shapes whose bounding boxes are not
\* strictly apart on either axis.
CollidingPairs(shapes) ==
    {ij \in (0 .. Len(shapes) - 1) \X (0 .. Len(shapes) - 1) :
        /\ ij[1] < ij[2]
        /\ LET a == GetBoundBox(At(shapes, ij[1]))
               b == GetBoundBox(At(shapes, ij[2]))
           IN  /\ a.min_x <= b.max_x /\ b.min_x <= a.max_x
               /\ a.min_y <= b.max_y /\ b.min_y <= a.max_y}

\* (i, j) comes before (k, l) in the lexicographic order
LexLess(ij, kl) == ij[1] < kl[1] \/ (ij[1] = kl[1] /\ ij[2] < kl[2])

\* The place of the pair ij among the pairs of S in lexicographic order.
PlaceIn(S, ij) == 1 + Cardinality({kl \in S : LexLess(kl, ij)})

\* ---- C19: FindAllCollisions returns the pairs (shapes[i], shapes[j]),
\* i < j, whose bounding boxes overlap, touching boxes included: each such
\* pair once, in the lexicographic order of (i, j), no shape with itself,
\* and nothing for fewer than 2 shapes.
C19_AllCollisionsInOrder ==
    quOp = "FindAllCollisions" =>
        LET colliding == CollidingPairs(quShapes)
        IN  /\ Len(quOutcome.pairs) = Cardinality(colliding)
            /\ \A ij \in colliding :
                  quOutcome.pairs[PlaceIn(colliding, ij)] =
                      <<At(quShapes, ij[1]), At(quShapes, ij[2])>>
            /\ Len(quShapes) < 2 => quOutcome.pairs = <<>>

\* Three shapes of which the first two merely touch and the third is apart.
C19_Witness ==
    /\ quOp = "FindAllCollisions"
    /\ Len(quShapes) = 3
    /\ Len(quOutcome.pairs) = 1
    /\ LET a == GetBoundBox(quOutcome.pairs[1][1])
           b == GetBoundBox(quOutcome.pairs[1][2])
       IN  a.max_x = b.min_x \/ a.max_y = b.min_y


\* The square of the smallest distance from point to a vertex of polygon.
NearestVertexSq(polygon, point) ==
    SetMin({DistanceSq(point, v) : v \in Range(polygon.points_)})

\* ---- C20: DistanceToPoint on an arbitrary polygon is the smallest distance
\* from the point to a vertex, not to an edge or to the interior: for the
\* square (0,0), (2,0), (2,2), (0,2) both the outside point (3,1) and the
\* centre (1,1) are at distance sqrt(2).
C20_PolygonDistanceToVertices ==
    (quOp = "DistanceToPoint" /\ quShapes[1].kind = "Polygon") =>
        /\ quOutcome.value.minus = 0
        /\ quOutcome.value.den = 1
        /\ quOutcome.value.num = NearestVertexSq(quShapes[1], quPoint)
        /\ (quShapes[1] = Polygon(Square) /\ quPoint \in {Point2D(3, 1), Point2D(1, 1)}) =>
              quOutcome.value.num = 2

\* The square and the outside point, one step from its right edge.
C20_Witness ==
    /\ quOp = "DistanceToPoint"
    /\ quShapes[1] = Polygon(Square)
    /\ quPoint = Point2D(3, 1)
    /\ quOutcome.value = [num |-> 2, den |-> 1, minus |-> 0]

C20_CentreWitness ==
    /\ quOp = "DistanceToPoint"
    /\ quShapes[1] = Polygon(Square)
    /\ quPoint = Point2D(1, 1)
    /\ quOutcome.value = [num |-> 2, den |-> 1, minus |-> 0]


\* The segment and the circle of a segment-circle call, in either order.
TheLine == IF ixFirst.kind = "Line" THEN ixFirst ELSE ixSecond

TheCircle == IF ixFirst.kind = "Circle" THEN ixFirst ELSE ixSecond

\* What the root choice asks of segment and circle, with
\* |start + t * d - centre|^2 = radius^2 written as a t^2 + b t + c = 0:
\* for a segment of no length its point when it is on the circle; for two
\* crossings t1 < t2 the point at t1 if 0 <= t1 <= 1, else the point at t2 if
\* 0 <= t2 <= 1, else nothing; "any" where the choice says nothing (the
\* supporting line touches or misses the circle).
RootChoice(line, circle) ==
    LET d == PointSub(line.end, line.start)
        f == PointSub(line.start, circle.center_p)
        a == Dot(d, d)
        b == 2 * Dot(f, d)
        c == Dot(f, f) - circle.radius * circle.radius
        disc == b * b - 4 * a * c
        PointAt(sg) == ExactPoint(2 * a * line.start.x - b * d.x, 2 * a * line.start.y - b * d.y,
                                  sg * d.x, sg * d.y, disc, 2 * a)
        \* 0 <= -b - sqrt(disc) <= 2a
        first == -b >= 0 /\ disc <= b * b /\ (-b - 2 * a <= 0 \/ disc >= (b + 2 * a) * (b + 2 * a))
        \* 0 <= -b + sqrt(disc) <= 2a
        second == (b <= 0 \/ disc >= b * b) /\ b + 2 * a >= 0 /\ disc <= (b + 2 * a) * (b + 2 * a)
    IN  IF a = 0
        THEN IF c = 0 THEN Some(ExactPoint(line.start.x, line.start.y, 0, 0, 0, 1)) ELSE Nullopt
        ELSE IF disc <= 0 THEN [kind |-> "any"]
        ELSE IF first THEN Some(PointAt(-1))
        ELSE IF second THEN Some(PointAt(1))
        ELSE Nullopt

IsLineCircleCall ==
    /\ IXReturned
    /\ {ixFirst.kind, ixSecond.kind} = {"Line", "Circle"}

\* ---- C21: a segment with two crossings t1 < t2 of its supporting line with
\* the circle gives the point at t1 if t1 is in [0, 1], else the point at t2
\* if t2 is in [0, 1], else nothing; a segment of no length gives its point
\* exactly when the point is on the circle.
C21_RootChoice ==
    IsLineCircleCall =>
        \/ RootChoice(TheLine, TheCircle).kind = "any"
        \/ SameAnswer(ixOutcome, RootChoice(TheLine, TheCircle))

\* The same for coordinates in steps of 1.
C21_RootChoiceCoarse ==
    (IsLineCircleCall /\ ixUnit = 0) =>
        \/ RootChoice(TheLine, TheCircle).kind = "any"
        \/ SameAnswer(ixOutcome, RootChoice(TheLine, TheCircle))


\* Two circles that cross in two points: their centres are further apart
\* than the difference of the radii and nearer than their sum.
CrossTwice(c1, c2) ==
    LET dd == DistanceSq(c1.center_p, c2.center_p)
    IN  /\ (c1.radius - c2.radius) * (c1.radius - c2.radius) < dd
        /\ dd < (c1.radius + c2.radius) * (c1.radius + c2.radius)

IsCrossingCirclesCall ==
    /\ ixPc = "done"
    /\ ixUnit = 0
    /\ ixFirst.kind = "Circle"
    /\ ixSecond.kind = "Circle"
    /\ CrossTwice(ixFirst, ixSecond)

\* ---- C22: for two circles that cross in two points GetIntersectPoint
\* returns one of the two points, and the same one whichever circle is passed
\* first.  Stated for steps of 1.
C22_FixedChoice ==
    IsCrossingCirclesCall =>
        /\ ixOutcome.kind = "point"
        /\ OnCircle(ixOutcome.point, ixFirst)
        /\ OnCircle(ixOutcome.point, ixSecond)
        /\ SameAnswer(ixPrev, ixOutcome)

\* The part of it that does not compare the two orders.
C22_OneOfTheTwo ==
    IsCrossingCirclesCall =>
        /\ ixOutcome.kind = "point"
        /\ OnCircle(ixOutcome.point, ixFirst)
        /\ OnCircle(ixOutcome.point, ixSecond)
        /\ ixPrev.kind = "point"
        /\ ~SamePoint(ixPrev.point, ixOutcome.point)

\* The answer each single-shape query gives when it has a case for the shape.
HandledKind ==
    [DistanceToPoint |-> "distance", GetBoundBox |-> "box", GetHeight |-> "height",
     PointInShape |-> "bool"]

IsSingleShapeQuery == quOp \in DOMAIN HandledKind

\* ---- C23: the four single-shape queries (DistanceToPoint, GetBoundBox,
\* GetHeight and the point-in-shape test) have a case for each of the six
\* kinds of shape: a call on any shape gives an answer of the query's kind.
C23_EveryKindHandled == IsSingleShapeQuery => quOutcome.kind = HandledKind[quOp]

\* The same without the point-in-shape test of an arbitrary polygon.
C23_HandledButPolygonContainment ==
    (IsSingleShapeQuery /\ ~(quOp = "PointInShape" /\ quShapes[1].kind = "Polygon")) =>
        quOutcome.kind = HandledKind[quOp]

\* A point-in-shape test of a segment that answered "contained".
IsContainedInSegment ==
    /\ quOp = "PointInShape"
    /\ quShapes[1].kind = "Line"
    /\ quOutcome = [kind |-> "bool", value |-> TRUE]

\* ---- C29: for every segment, a zero-length one included, and every point,
\* if the point-in-segment test of PointInShapeVisitor reports the point as
\* contained in the segment, then DistanceToPoint of the segment and the
\* point is 0.
C29_ContainedMeansDistanceZero ==
    IsContainedInSegment => DistanceToPoint(quShapes[1], quPoint) = Distance(0, 1, 0)

\* The same for segments of positive length.
C29_ContainedInProperSegment ==
    (IsContainedInSegment /\ quShapes[1].start # quShapes[1].end) =>
        DistanceToPoint(quShapes[1], quPoint) = Distance(0, 1, 0)

\* A call of GetIntersectPoint on two segments that returned a point.
IsSegmentsMeetCall ==
    /\ IXReturned
    /\ ixUnit = 0
    /\ ixFirst.kind = "Line"
    /\ ixSecond.kind = "Line"
    /\ ixOutcome.kind = "point"

\* ---- C30: for all segments l1, l2, whenever GetIntersectPoint(l1, l2)
\* returns a point, DistanceBetweenShapes(l1, l2) is 0.  Stated for steps
\* of 1.
C30_MeetingMeansDistanceZero ==
    IsSegmentsMeetCall =>
        DistanceBetweenShapes(ixFirst, ixSecond) = [kind |-> "distance", value |-> Distance(0, 1, 0)]

\* The same for segments that meet in an end point of one of them.
C30_MeetingAtAnEnd ==
    (/\ IsSegmentsMeetCall
     /\ \E e \in {ixFirst.start, ixFirst.end, ixSecond.start, ixSecond.end} :
            SamePoint(ixOutcome.point, ExactPoint(e.x, e.y, 0, 0, 0, 1))) =>
        DistanceBetweenShapes(ixFirst, ixSecond) = [kind |-> "distance", value |-> Distance(0, 1, 0)]

\* The points the insertion loop builds edges of: the vertices of the bad
\* triangles of the current point.
EdgeEnds == UNION {{dtBad[k].a, dtBad[k].b, dtBad[k].c} : k \in 1 .. Len(dtBad)}

\* p comes before q by x, then by y.
PointBefore(p, q) == p.x < q.x \/ (p.x = q.x /\ p.y < q.y)

\* ---- C26: an edge does not depend on the direction it is built in: for
\* all points p, q, Edge(p, q) and Edge(q, p) store the same p1 and p2, p1
\* being the smaller point by x then y; they are equal under operator==,
\* neither is less than the other under operator<, and inserting one into
\* the cavity set and erasing the other leaves the set as it was.
C26_EdgeDirectionFree ==
    \A p \in EdgeEnds, q \in EdgeEnds :
        /\ Edge(p, q) = Edge(q, p)
        /\ {Edge(p, q).p1, Edge(p, q).p2} = {p, q}
        /\ ~PointBefore(Edge(p, q).p2, Edge(p, q).p1)
        /\ EdgeEqual(Edge(p, q), Edge(q, p), dtUnit)
        /\ ~EdgeLess(Edge(p, q), Edge(q, p), dtUnit)
        /\ ~EdgeLess(Edge(q, p), Edge(p, q), dtUnit)
        /\ ToggleEdge(ToggleEdge({}, Edge(p, q), dtUnit), Edge(q, p), dtUnit) = {}

\* Two bad triangles run along a common edge in opposite directions, and the
\* direction of one of them is not the stored one.
C26_Witness ==
    \E j \in 1 .. Len(dtBad), k \in 1 .. Len(dtBad) :
        \E e \in {<<dtBad[j].a, dtBad[j].b>>, <<dtBad[j].b, dtBad[j].c>>, <<dtBad[j].c, dtBad[j].a>>},
           f \in {<<dtBad[k].a, dtBad[k].b>>, <<dtBad[k].b, dtBad[k].c>>, <<dtBad[k].c, dtBad[k].a>>} :
            /\ e[1] = f[2]
            /\ e[2] = f[1]
            /\ e[1] # e[2]
            /\ dtUnit = 21

\* The sides of a triangle as unordered pairs of points.
Sides(t) == {{t.a, t.b}, {t.b, t.c}, {t.c, t.a}}

\* The sides that belong to exactly one triangle of the sequence bad.
SidesOfOne(bad) ==
    {side \in UNION {Sides(bad[k]) : k \in 1 .. Len(bad)} :
        Cardinality({k \in 1 .. Len(bad) : side \in Sides(bad[k])}) = 1}

\* The sides that belong to two triangles of the sequence bad.
SidesOfTwo(bad) ==
    {side \in UNION {Sides(bad[k]) : k \in 1 .. Len(bad)} :
        Cardinality({k \in 1 .. Len(bad) : side \in Sides(bad[k])}) = 2}

\* ---- C25: at each insertion of a point, the edges used to re-triangulate
\* are the edges that belong to exactly one bad triangle (a triangle whose
\* circumcircle contains the point, by ContainsPoint); an edge shared by two
\* bad triangles is not among them; the triangles removed from the working
\* list are exactly the bad triangles collected for this point, and one new
\* triangle is added for each edge of the boundary.
C25_CavityBoundary ==
    [][(dtPc = "insert" /\ dtI' = dtI + 1) =>
          LET point == dtPoints[dtI + 1]
              kept == SelectSeq(dtTriangles, LAMBDA t : t \notin Range(dtBad'))
              added == SubSeq(dtTriangles', Len(kept) + 1, Len(dtTriangles'))
          IN  /\ dtBad' = SelectSeq(dtTriangles, LAMBDA t : ContainsPoint(t, point, dtUnit))
              /\ {{e.p1, e.p2} : e \in dtPolygon'} = SidesOfOne(dtBad')
              /\ Cardinality(dtPolygon') = Cardinality(SidesOfOne(dtBad'))
              /\ \A e \in dtPolygon' : {e.p1, e.p2} \notin SidesOfTwo(dtBad')
              /\ SubSeq(dtTriangles', 1, Len(kept)) = kept
              /\ Len(added) = Cardinality(dtPolygon')
              /\ Range(added) = {DelaunayTriangle(e.p1, e.p2, point) : e \in dtPolygon'}]_vars

\* The same for steps of 0.5, where the tolerance 1e-10 takes no proper
\* triangle for a degenerate one.
C25_CavityBoundaryCoarse ==
    [][(dtPc = "insert" /\ dtI' = dtI + 1 /\ dtUnit = 1) =>
          /\ {{e.p1, e.p2} : e \in dtPolygon'} = SidesOfOne(dtBad')
          /\ Cardinality(dtPolygon') = Cardinality(SidesOfOne(dtBad'))
          /\ \A e \in dtPolygon' : {e.p1, e.p2} \notin SidesOfTwo(dtBad')]_vars

\* A call on at least 3 distinct points, not all on one line, that returned.
IsProperInputReturned ==
    /\ dtPc = "done"
    /\ dtOutcome.kind = "value"
    /\ Cardinality(Range(dtPoints)) = Len(dtPoints)
    /\ ~AllCollinear(Range(dtPoints))

\* Every input point is a vertex of a returned triangle.
EveryPointCovered ==
    \A p \in Range(dtPoints) :
        \E k \in 1 .. Len(dtOutcome.triangles) :
            p \in {dtOutcome.triangles[k].a, dtOutcome.triangles[k].b, dtOutcome.triangles[k].c}

\* ---- C28: for any input of at least 3 distinct points that are not all
\* collinear, every input point is a vertex of at least one triangle that
\* DelaunayTriangulation returns.
C28_EveryPointCovered == IsProperInputReturned => EveryPointCovered

\* The same for steps of 0.5.
C28_EveryPointCoveredCoarse == (IsProperInputReturned /\ dtUnit = 1) => EveryPointCovered

\* (b - a) x (c - b): negative for a clockwise turn at b.
Turn(a, b, c) == Cross(PointSub(b, a), PointSub(c, b))

\* p is the input point of minimum y, then minimum x.
IsPivot(p) ==
    /\ p \in Range(ghInput)
    /\ \A q \in Range(ghInput) : p.y < q.y \/ (p.y = q.y /\ p.x <= q.x)

\* The stack starts with the pivot and no three consecutive points of it
\* turn clockwise.
StackInvariant(hull) ==
    /\ IsPivot(hull[1])
    /\ \A k \in 1 .. Len(hull) - 2 : Turn(hull[k], hull[k + 1], hull[k + 2]) >= 0

\* hull, closed from its last point to its first, runs counter-clockwise
\* around every point of the input: no turn of it is clockwise and no input
\* point lies on the right of one of its edges.
HullCounterClockwise(hull) ==
    \A k \in 1 .. Len(hull) :
        /\ Turn(hull[k], hull[(k % Len(hull)) + 1], hull[((k + 1) % Len(hull)) + 1]) >= 0
        /\ \A p \in Range(ghInput) : Orient(hull[k], hull[(k % Len(hull)) + 1], p) >= 0

AfterScanIteration == ghPc \in {"scan", "done"} /\ ghI >= 1

\* ---- C27: after each iteration of the scan loop the stack starts with the
\* pivot (the input point of minimum y, then minimum x) and every three
\* consecutive stack points make no clockwise turn; consequently the
\* returned sequence lists the hull in counter-clockwise order starting at
\* the pivot.
C27_ScanInvariant ==
    /\ AfterScanIteration => StackInvariant(ghHull)
    /\ (ghPc = "done" /\ ghOutcome.kind = "value") =>
           /\ IsPivot(ghOutcome.hull[1])
           /\ HullCounterClockwise(ghOutcome.hull)

\* The invariant of the stack alone.
C27_StackInvariantAlone == AfterScanIteration => StackInvariant(ghHull)

\* The whole statement for steps of 1 and of 0.5.
C27_ScanInvariantCoarse ==
    ghUnit # 20 =>
        /\ AfterScanIteration => StackInvariant(ghHull)
        /\ (ghPc = "done" /\ ghOutcome.kind = "value") =>
               /\ IsPivot(ghOutcome.hull[1])
               /\ HullCounterClockwise(ghOutcome.hull)

\* The entries of an input: the pieces between its ';'.
RECURSIVE EntriesOf(_)
EntriesOf(input) ==
    IF \A i \in 1 .. Len(input) : input[i] # ";"
    THEN <<input>>
    ELSE LET cut == CHOOSE i \in 1 .. Len(input) :
                        input[i] = ";" /\ \A j \in 1 .. i - 1 : input[j] # ";"
         IN  <<SubSeq(input, 1, cut - 1)>> \o EntriesOf(SubSeq(input, cut + 1, Len(input)))

\* The numbers that the numerals of the inputs denote, in tenths.
NumeralValue ==
    (<<"0">> :> 0) @@ (<<"1">> :> 10) @@ (<<"2">> :> 20) @@ (<<"3">> :> 30)
        @@ (<<"-", "1">> :> -10) @@ (<<"2", ".", "5">> :> 25)

\* The kind names, with the number of parameters of each.
KindNames ==
    { [name |-> <<"c", "i", "r", "c", "l", "e">>, kind |-> "Circle", parameters |-> 3],
      [name |-> <<"l", "i", "n", "e">>, kind |-> "Line", parameters |-> 4],
      [name |-> <<"t", "r", "i", "a", "n", "g", "l", "e">>, kind |-> "Triangle", parameters |-> 6],
      [name |-> <<"r", "e", "c", "t", "a", "n", "g", "l", "e">>, kind |-> "Rectangle", parameters |-> 4],
      [name |-> <<"p", "o", "l", "y", "g", "o", "n">>, kind |-> "RegularPolygon", parameters |-> 4] }

\* The kind an entry names and the numbers it gives, when it is valid: a
\* known kind name, the right number of parameters, every parameter a
\* number, radius, width and height positive, the number of sides a whole
\* number of at least 3.
EntryRead(entry) ==
    LET words == SplitIntoWords(entry)
        named == {k \in KindNames : words # <<>> /\ k.name = words[1]}
        kind == (CHOOSE k \in named : TRUE).kind
        v == [i \in 1 .. Len(words) - 1 |-> NumeralValue[words[i + 1]]]
    IN  IF /\ named # {}
           /\ Len(words) - 1 = (CHOOSE k \in named : TRUE).parameters
           /\ \A i \in 2 .. Len(words) : words[i] \in DOMAIN NumeralValue
           /\ kind \in {"Circle", "Rectangle", "RegularPolygon"} => v[3] > 0
           /\ kind = "Rectangle" => v[4] > 0
           /\ kind = "RegularPolygon" => (v[4] % 10 = 0 /\ v[4] >= 30)
        THEN [valid |-> TRUE, kind |-> kind, v |-> v]
        ELSE [valid |-> FALSE]

\* The shape a valid entry describes.
EntryShape(entry) ==
    LET v == EntryRead(entry).v
        kind == EntryRead(entry).kind
    IN  CASE kind = "Circle" -> Circle(Point2D(v[1], v[2]), v[3])
          [] kind = "Line" -> Line(Point2D(v[1], v[2]), Point2D(v[3], v[4]))
          [] kind = "Triangle" ->
                 Triangle(Point2D(v[1], v[2]), Point2D(v[3], v[4]), Point2D(v[5], v[6]))
          [] kind = "Rectangle" -> Rectangle(Point2D(v[1], v[2]), v[3], v[4])
          [] kind = "RegularPolygon" -> RegularPolygon(Point2D(v[1], v[2]), v[3], v[4] \div 10)

\* ---- C24: ParseShapes treats the entries between ';' one by one and in
\* order: an entry with an unknown kind name, a wrong number of parameters,
\* a parameter that is no number, a radius, width or height that is not
\* positive, or a number of sides that is not a whole number of at least 3
\* is skipped and the others are not affected; the shapes returned are the
\* shapes of the valid entries, in the order of the input; so every circle,
\* rectangle and regular polygon returned has radius > 0, width > 0,
\* height > 0, sides >= 3.
C24_ValidEntriesInOrder ==
    quOp = "ParseShapes" =>
        LET valid == SelectSeq(EntriesOf(quOutcome.input), LAMBDA e : EntryRead(e).valid)
        IN  /\ quOutcome.shapes = [k \in 1 .. Len(valid) |-> EntryShape(valid[k])]
            /\ \A k \in 1 .. Len(quOutcome.shapes) :
                   LET shape == quOutcome.shapes[k]
                   IN  /\ shape.kind \in {"Circle", "RegularPolygon"} => shape.radius > 0
                       /\ shape.kind = "Rectangle" => (shape.width > 0 /\ shape.height > 0)
                       /\ shape.kind = "RegularPolygon" => shape.sides >= 3

\* The input of the test with an invalid entry between two valid ones:
\* "circle 0 0 1;polygon 0 0 1 2;line 0 0 1 1" returns the circle and the line.
C24_Witness ==
    /\ quOp = "ParseShapes"
    /\ Len(EntriesOf(quOutcome.input)) = 3
    /\ EntryRead(EntriesOf(quOutcome.input)[1]).valid
    /\ ~EntryRead(EntriesOf(quOutcome.input)[2]).valid
    /\ SplitIntoWords(EntriesOf(quOutcome.input)[2]) # <<>>
    /\ SplitIntoWords(EntriesOf(quOutcome.input)[2])[1] = <<"p", "o", "l", "y", "g", "o", "n">>
    /\ EntryRead(EntriesOf(quOutcome.input)[3]).valid
    /\ quOutcome.shapes = << Circle(Point2D(0, 0), 10), Line(Point2D(0, 0), Point2D(10, 10)) >>

\* The entry "polygon 1 1 1 w" alone, w being 0, 2.5 or the word x, is
\* skipped: nothing is returned.
C24_SkipWitness ==
    /\ quOp = "ParseShapes"
    /\ quOutcome.shapes = <<>>
    /\ \E word \in {<<"0">>, <<"2", ".", "5">>, <<"x">>} :
           SplitIntoWords(quOutcome.input) =
               << <<"p", "o", "l", "y", "g", "o", "n">>, <<"1">>, <<"1">>, <<"1">>, word >>

====
